---- MODULE Spec2Model ----
(***************************************************************************)
(* A model of the torrust-tracker core: the UDP connection-id engine, the  *)
(* UDP request dispatch, the in-memory swarm registry of TorrentTracker,   *)
(* and its authentication / whitelist layer.                               *)
(*                                                                         *)
(* Time is counted in whole seconds (Timestamp64 = u64 seconds,            *)
(* DefaultClock::now() as a Duration compared at second granularity).      *)
(***************************************************************************)
EXTENDS Integers, Naturals, Sequences, FiniteSets, TLC

VARIABLES
    now,          \* the clock read by DefaultClock::now() / passed as current_timestamp
    secret,       \* the process-local cipher secret of EncryptedConnectionIdIssuer
    ck_issue,     \* cookie engine: the last new_connection_id call and its result
    ck_check,     \* cookie engine: the last verify_connection_id call and its result
    mode,         \* TorrentTracker.mode
    cfg,          \* TorrentTracker.common (persistence / pruning switches)
    keys,         \* TorrentTracker.keys      : key string -> valid_until
    whitelist,    \* TorrentTracker.whitelist : set of info hashes
    torrents,     \* TorrentTracker.torrents  : info hash -> TorrentEntry
    db_keys,      \* the store's keys table
    db_whitelist, \* the store's whitelist table
    db_torrents,  \* the store's persistent torrents table: info hash -> completed
    udp_conn,     \* the connection id a UDP client holds (from its last Connect)
    last,         \* the last operation processed, its inputs and its result
    ann,          \* history: per (info hash, peer id) the last announce still in force
    job,          \* the torrent cleanup job: its interval timer
    lock,         \* the RwLock around TorrentTracker.torrents: writer and readers
    tasks,        \* request tasks in flight: task id -> its position and request
    active_requests, \* the UDP loop's buffer of abort handles, oldest first
    server,       \* a listener: its controller state and its tasks
    registry,     \* the health-check registry of the Registar: local addresses
    shutdown      \* the graceful shutdown task of an HTTP listener

vars == <<now, secret, ck_issue, ck_check, mode, cfg, keys, whitelist, torrents,
          db_keys, db_whitelist, db_torrents, udp_conn, last, ann,
          job, lock, tasks, active_requests, server, registry, shutdown>>

\* The variables of the cleanup job, the registry lock and the request tasks.
svcVars == <<server, registry, shutdown>>

auxVars == <<job, lock, tasks, active_requests, svcVars>>

None == "None"

\* The state of a call record before the call was made.
NoCall == [called |-> FALSE]

\* No cleanup job started, the lock free, no request task, an empty buffer.
AuxInit ==
    /\ job = [started |-> FALSE]
    /\ lock = [writer |-> None, readers |-> {}]
    /\ tasks = << >>
    /\ active_requests = << >>
    /\ server = [pc |-> "none"]
    /\ registry = {}
    /\ shutdown = [pc |-> "none"]

(***************************************************************************)
(* Bounds of the model.                                                    *)
(***************************************************************************)
MaxIssueTime == 3      \* issue instants of the cookie engine: 0..MaxIssueTime
MaxCheckTime == 125    \* check instants of the cookie engine: 0..MaxCheckTime
MaxSecret == 1         \* secrets 0..MaxSecret
ClientIdSpace == 4     \* number of distinct ClientId values (2^32 in the program)

Ips == {0, 1}
Ports == {0, 1}
IpVersions == {4, 6}

\* std::net::SocketAddr: IP version, IP and port.
SocketAddrs == [ver : IpVersions, ip : Ips, port : Ports]

(***************************************************************************)
(* The connection-id engine (udp/connection/connection_id_issuer.rs).      *)
(***************************************************************************)

\* new_connection_id: expiration = current_timestamp + 120
LIFETIME == 120

\* The range of Timestamp32 (u32 in the program), wide enough for every
\* expiration the bounded instants produce, so try_into().unwrap() never panics.
TsSpace == MaxCheckTime + LIFETIME + 2

\* The 8-byte block: 4 bytes of client id followed by 4 bytes of timestamp.
BlockSpace == ClientIdSpace * TsSpace

\* ClientId::from_socket_address: a 4-byte digest of the socket address.  The
\* digest is shorter than the address (IP, port and IP version), so distinct
\* addresses share a client id; the model keeps that: there are more
\* SocketAddrs than client ids.
from_socket_address(a) ==
    (a.ip + 2 * a.port + (IF a.ver = 6 THEN 4 ELSE 0)) % ClientIdSpace

\* ConnectionIdData::to_bytes / from_bytes
to_bytes(data) == data.client_id * TsSpace + data.expiration_timestamp

from_bytes(block) ==
    [client_id |-> block \div TsSpace, expiration_timestamp |-> block % TsSpace]

\* BlowfishCypher::encrypt / decrypt: a keyed permutation of the 64-bit block
\* and its inverse.
encrypt(key, block) == (BlockSpace - 1 - block + key) % BlockSpace

decrypt(key, block) == (BlockSpace - 1 - block + key) % BlockSpace

new_connection_id(key, remote_address, current_timestamp) ==
    LET client_id == from_socket_address(remote_address)
        expiration_timestamp == current_timestamp + LIFETIME
        connection_id_data == [client_id |-> client_id,
                               expiration_timestamp |-> expiration_timestamp]
    IN  encrypt(key, to_bytes(connection_id_data))

\* A verifier that forgets the client guard.
verify_connection_id_no_client_guard(key, connection_id, remote_address, current_timestamp) ==
    LET connection_id_data == from_bytes(decrypt(key, connection_id))
    IN  IF connection_id_data.expiration_timestamp < current_timestamp
        THEN "Expired connection id"
        ELSE "Ok"

\* A verifier that forgets the expiration guard.
verify_connection_id_no_expiry_guard(key, connection_id, remote_address, current_timestamp) ==
    LET connection_id_data == from_bytes(decrypt(key, connection_id))
        expected_client_id == from_socket_address(remote_address)
    IN  IF connection_id_data.client_id # expected_client_id
        THEN "Invalid client id"
        ELSE "Ok"

verify_connection_id(key, connection_id, remote_address, current_timestamp) ==
    LET connection_id_data == from_bytes(decrypt(key, connection_id))
        expected_client_id == from_socket_address(remote_address)
    IN  IF connection_id_data.client_id # expected_client_id
        THEN "Invalid client id"
        ELSE IF connection_id_data.expiration_timestamp < current_timestamp
        THEN "Expired connection id"
        ELSE "Ok"

(***************************************************************************)
(* The cookie engine as a pure function: the inputs are drawn from bounded *)
(* sets, the actions apply new_connection_id and verify_connection_id.     *)
(***************************************************************************)
RestInit ==
    /\ now = 0
    /\ mode = "Public"
    /\ cfg = [persistent |-> FALSE, pruning |-> FALSE]
    /\ keys = << >>
    /\ whitelist = {}
    /\ torrents = << >>
    /\ db_keys = << >>
    /\ db_whitelist = {}
    /\ db_torrents = << >>
    /\ udp_conn = NoCall
    /\ last = [op |-> "init"]
    /\ ann = [x \in {"h1", "h2"} \X {"p1", "p2"} |-> -1]
    /\ AuxInit

InitCookie ==
    /\ secret \in 0..MaxSecret
    /\ ck_issue = NoCall
    /\ ck_check = NoCall
    /\ RestInit

NewConnectionId(a, t) ==
    /\ ck_issue' = [called |-> TRUE, addr |-> a, at |-> t, id |-> new_connection_id(secret, a, t)]
    /\ ck_check' = NoCall
    /\ UNCHANGED <<auxVars, now, secret, mode, cfg, keys, whitelist, torrents, db_keys,
                   db_whitelist, db_torrents, udp_conn, last, ann>>

VerifyConnectionId(a, t) ==
    /\ ck_issue.called
    /\ ~ck_check.called
    /\ ck_check' = [called |-> TRUE, addr |-> a, at |-> t,
                    res |-> verify_connection_id(secret, ck_issue.id, a, t)]
    /\ UNCHANGED <<auxVars, now, secret, ck_issue, mode, cfg, keys, whitelist, torrents,
                   db_keys, db_whitelist, db_torrents, udp_conn, last, ann>>

NextCookie ==
    \/ \E a \in SocketAddrs, t \in 0..MaxIssueTime : NewConnectionId(a, t)
    \/ \E a \in SocketAddrs, t \in 0..MaxCheckTime : VerifyConnectionId(a, t)

SpecCookie == InitCookie /\ [][NextCookie]_vars

(***************************************************************************)
(* C1 and C2: the validity window and the address binding.                 *)
(***************************************************************************)

\* The issuer compares expiration < now, so the window ends at t + 120.
Grace == 0

\* C1: for every remote address a and issue instant t, verifying issue(a, t)
\* for the same address at t' is Ok iff t <= t' <= t + 120 + grace.
C1_WindowExact ==
    (ck_check.called /\ ck_check.addr = ck_issue.addr)
        => (ck_check.res = "Ok"
              <=> (ck_issue.at <= ck_check.at
                   /\ ck_check.at <= ck_issue.at + LIFETIME + Grace))

MaxTime == 2        \* the clock of the registry runs over 0..MaxTime
MaxCompleted == 2   \* announces that would push completed past it are not drawn
MaxPeerAge == 1     \* common.peer_timeout_seconds_maximum of the modelled tracker

InfoHashes == {"h1", "h2"}
PeerIds == {"p1", "p2"}
PeerAddrs == {"a1"}
Events == {"Started", "Stopped", "Completed", "None"}
Lefts == {0, 1}     \* bytes left: 0 is a seeder, anything else a leecher

EmptyMap == << >>

\* map.insert(k, v) and map.remove(k) of the std collections
MapInsert(m, k, v) == [x \in DOMAIN m \cup {k} |-> IF x = k THEN v ELSE m[x]]

MapRemove(m, k) == [x \in DOMAIN m \ {k} |-> m[x]]

\* TorrentPeer as the handler builds it from a request: updated is the clock's
\* instant.  uploaded, downloaded and the stored event are read by no operation
\* of the registry and are left out of the stored record.
TorrentPeer(peer_id, peer_addr, updated, left) ==
    [peer_id |-> peer_id, peer_addr |-> peer_addr, updated |-> updated, left |-> left]

\* TorrentEntry::new()
TorrentEntry_new == [peers |-> EmptyMap, completed |-> 0]

\* TorrentEntry::update_peer(peer) -> stats_updated, with the peer's event
update_peer(entry, peer, event) ==
    IF event = "Stopped"
    THEN [entry |-> [entry EXCEPT !.peers = MapRemove(entry.peers, peer.peer_id)],
          stats_updated |-> FALSE]
    ELSE LET was_seeder == /\ peer.peer_id \in DOMAIN entry.peers
                           /\ entry.peers[peer.peer_id].left = 0
             counted == event = "Completed" /\ ~was_seeder
         IN  [entry |-> [peers |-> MapInsert(entry.peers, peer.peer_id, peer),
                         completed |-> IF counted THEN entry.completed + 1
                                       ELSE entry.completed],
              stats_updated |-> counted]

\* TorrentEntry::get_stats() -> (seeders, completed, leechers)
get_stats(entry) ==
    [seeders |-> Cardinality({p \in DOMAIN entry.peers : entry.peers[p].left = 0}),
     completed |-> entry.completed,
     leechers |-> Cardinality({p \in DOMAIN entry.peers : entry.peers[p].left # 0})]

\* TorrentEntry::remove_inactive_peers(max_peer_timeout)
remove_inactive_peers(entry, max_peer_timeout, current) ==
    LET kept == {p \in DOMAIN entry.peers :
                    current - entry.peers[p].updated <= max_peer_timeout}
    IN  [entry EXCEPT !.peers = [p \in kept |-> entry.peers[p]]]

\* An update that always starts from a fresh entry.
update_torrent_with_peer_fresh_entry(ts, info_hash, peer, event) ==
    LET r == update_peer(TorrentEntry_new, peer, event)
    IN  [torrents |-> MapInsert(ts, info_hash, r.entry),
         stats_updated |-> r.stats_updated,
         stats |-> get_stats(r.entry)]

\* An update that creates the entry of a new torrent without the peer.
update_torrent_with_peer_vacant_without_peer(ts, info_hash, peer, event) ==
    IF info_hash \in DOMAIN ts
    THEN LET r == update_peer(ts[info_hash], peer, event)
         IN  [torrents |-> MapInsert(ts, info_hash, r.entry),
              stats_updated |-> r.stats_updated,
              stats |-> get_stats(r.entry)]
    ELSE [torrents |-> MapInsert(ts, info_hash, TorrentEntry_new),
          stats_updated |-> FALSE,
          stats |-> get_stats(TorrentEntry_new)]

\* TorrentTracker::update_torrent_with_peer_and_get_stats, on the map ts
update_torrent_with_peer(ts, info_hash, peer, event) ==
    LET torrent_entry == IF info_hash \in DOMAIN ts THEN ts[info_hash]
                         ELSE TorrentEntry_new
        r == update_peer(torrent_entry, peer, event)
    IN  [torrents |-> MapInsert(ts, info_hash, r.entry),
         stats_updated |-> r.stats_updated,
         stats |-> get_stats(r.entry)]

\* A sweep that only looks at the peers when it also prunes entries.
cleanup_torrents_sweeps_only_when_pruning(ts, common, current) ==
    LET swept == [h \in DOMAIN ts |-> remove_inactive_peers(ts[h], MaxPeerAge, current)]
    IN  IF common.pruning
        THEN [h \in {x \in DOMAIN ts : DOMAIN swept[x].peers # {}
                        \/ (common.persistent /\ swept[x].completed > 0)} |-> swept[h]]
        ELSE ts

\* A sweep whose pruning looks at the peers only, whatever the persistence.
cleanup_torrents_prunes_by_peers_only(ts, common, current) ==
    LET swept == [h \in DOMAIN ts |-> remove_inactive_peers(ts[h], MaxPeerAge, current)]
    IN  IF common.pruning
        THEN [h \in {x \in DOMAIN ts : DOMAIN swept[x].peers # {}} |-> swept[h]]
        ELSE swept

\* TorrentTracker::cleanup_torrents, on the map ts
cleanup_torrents(ts, common, current) ==
    LET swept == [h \in DOMAIN ts |-> remove_inactive_peers(ts[h], MaxPeerAge, current)]
        retained == {h \in DOMAIN ts :
                        IF common.persistent
                        THEN swept[h].completed > 0 \/ DOMAIN swept[h].peers # {}
                        ELSE DOMAIN swept[h].peers # {}}
    IN  IF common.pruning
        THEN [h \in retained |-> swept[h]]
        ELSE swept

\* A load that overwrites the entries already in the registry.
load_persistent_torrents_overwrite(ts, persistent_torrents) ==
    [h \in DOMAIN ts \cup DOMAIN persistent_torrents |->
        IF h \in DOMAIN persistent_torrents
        THEN [peers |-> EmptyMap, completed |-> persistent_torrents[h]]
        ELSE ts[h]]

\* A load that creates the absent entries with a counter of zero.
load_persistent_torrents_zero_completed(ts, persistent_torrents) ==
    [h \in DOMAIN ts \cup DOMAIN persistent_torrents |->
        IF h \in DOMAIN ts
        THEN ts[h]
        ELSE [peers |-> EmptyMap, completed |-> 0]]

\* TorrentTracker::load_persistent_torrents, on the map ts
load_persistent_torrents(ts, persistent_torrents) ==
    [h \in DOMAIN ts \cup DOMAIN persistent_torrents |->
        IF h \in DOMAIN ts
        THEN ts[h]
        ELSE [peers |-> EmptyMap, completed |-> persistent_torrents[h]]]

(***************************************************************************)
(* Authentication keys and the whitelist (tracker/key.rs, tracker.rs).     *)
(***************************************************************************)
MaxLifetime == 2    \* generate_auth_key lifetimes: 0..MaxLifetime seconds

KeyStrings == {"k1", "k2"}
Modes == {"Public", "Listed", "Private", "PrivateListed"}

\* Option<T>: None is the empty set, Some(x) the singleton {x}.
Some(x) == {x}

NoneOpt == {}

Unwrap(opt) == CHOOSE x \in opt : TRUE

\* key::generate_auth_key, for the key string the random generator drew
key_generate_auth_key(key, seconds_valid, current) ==
    [key |-> key, valid_until |-> Some(current + seconds_valid)]

\* AuthKey::from_string: the key a request presents carries no valid_until
AuthKey_from_string(key) == [key |-> key, valid_until |-> NoneOpt]

\* A key check that still accepts the key at its expiry instant.
key_verify_auth_key_off_by_one(auth_key, current) ==
    IF auth_key.valid_until = NoneOpt THEN "KeyInvalid"
    ELSE IF Unwrap(auth_key.valid_until) < current THEN "KeyExpired"
    ELSE "Ok"

\* key::verify_auth_key
key_verify_auth_key(auth_key, current) ==
    IF auth_key.valid_until = NoneOpt THEN "KeyInvalid"
    ELSE IF Unwrap(auth_key.valid_until) <= current THEN "KeyExpired"
    ELSE "Ok"

\* TorrentTracker::verify_auth_key: the stored key decides, not the presented one
verify_auth_key(ks, auth_key, current) ==
    IF auth_key.key \notin DOMAIN ks THEN "KeyInvalid"
    ELSE key_verify_auth_key(ks[auth_key.key], current)

\* TorrentTracker::is_public / is_private / is_whitelisted
is_public(m) == m = "Public"

is_private(m) == m = "Private" \/ m = "PrivateListed"

is_whitelisted(m) == m = "Listed" \/ m = "PrivateListed"

\* TorrentTracker::is_info_hash_whitelisted
is_info_hash_whitelisted(wl, info_hash) == info_hash \in wl

\* A gate that checks the whitelist before the key.
authenticate_request_whitelist_first(m, ks, wl, info_hash, key, current) ==
    IF is_public(m) THEN "Ok"
    ELSE IF is_whitelisted(m) /\ ~is_info_hash_whitelisted(wl, info_hash)
    THEN "TorrentNotWhitelisted"
    ELSE IF is_private(m) /\ key = NoneOpt THEN "PeerNotAuthenticated"
    ELSE IF is_private(m) /\ verify_auth_key(ks, Unwrap(key), current) # "Ok"
    THEN "PeerKeyNotValid"
    ELSE "Ok"

\* TorrentTracker::authenticate_request
authenticate_request(m, ks, wl, info_hash, key, current) ==
    IF is_public(m) THEN "Ok"
    ELSE IF is_private(m) /\ key = NoneOpt THEN "PeerNotAuthenticated"
    ELSE IF is_private(m) /\ verify_auth_key(ks, Unwrap(key), current) # "Ok"
    THEN "PeerKeyNotValid"
    ELSE IF is_whitelisted(m) /\ ~is_info_hash_whitelisted(wl, info_hash)
    THEN "TorrentNotWhitelisted"
    ELSE "Ok"

(***************************************************************************)
(* The operations of the tracker as actions.  db_ok is the outcome of the  *)
(* store operation the method awaits (Ok or a database::Error).            *)
(***************************************************************************)
cookieVars == <<secret, ck_issue, ck_check>>

\* No announce of the peer is in force: none yet, or the last one was Stopped,
\* or the peer has since been older than the maximum age at a sweep.
NoAnn == -1

\* TorrentTracker::update_torrent_with_peer_and_get_stats: the registry is
\* updated under the write lock and, when persistence is on and completed
\* changed, the counter is saved; the result of the save is dropped.
UpdateTorrentWithPeerAndGetStats(info_hash, peer, event, db_ok) ==
    LET u == update_torrent_with_peer(torrents, info_hash, peer, event)
    IN  /\ u.torrents[info_hash].completed <= MaxCompleted
        /\ torrents' = u.torrents
        /\ db_torrents' =
              IF cfg.persistent /\ u.stats_updated /\ db_ok
              THEN MapInsert(db_torrents, info_hash, u.torrents[info_hash].completed)
              ELSE db_torrents

\* The peer map and the completed counter of torrent h, empty and 0 without entry.
PeersOf(ts, h) == IF h \in DOMAIN ts THEN ts[h].peers ELSE EmptyMap

CompletedOf(ts, h) == IF h \in DOMAIN ts THEN ts[h].completed ELSE 0

\* What the registry held for the peer when the request arrived.
PriorRecord(ts, info_hash, peer_id) ==
    IF info_hash \notin DOMAIN ts \/ peer_id \notin DOMAIN ts[info_hash].peers
    THEN "absent"
    ELSE IF ts[info_hash].peers[peer_id].left = 0 THEN "seeder" ELSE "leecher"

\* A handler that updates the registry before it looks at the gate's verdict.
Announce_update_before_gate(info_hash, peer_id, peer_addr, left, event, key, db_ok) ==
    LET res == authenticate_request(mode, keys, whitelist, info_hash, key, now)
        peer == TorrentPeer(peer_id, peer_addr, now, left)
    IN  /\ last' = [op |-> "announce", info_hash |-> info_hash, peer_id |-> peer_id,
                     event |-> event, res |-> res,
                     prior |-> PriorRecord(torrents, info_hash, peer_id)]
        /\ UpdateTorrentWithPeerAndGetStats(info_hash, peer, event, db_ok)
        /\ ann' = [ann EXCEPT ![<<info_hash, peer_id>>] =
                         IF event = "Stopped" THEN NoAnn ELSE now]
        /\ UNCHANGED <<auxVars, now, cookieVars, mode, cfg, keys, whitelist, db_keys,
                       db_whitelist, udp_conn>>

\* The announce handler: the policy gate, then the registry update with a
\* peer stamped with the clock's instant.
Announce(info_hash, peer_id, peer_addr, left, event, key, db_ok) ==
    LET res == authenticate_request(mode, keys, whitelist, info_hash, key, now)
        peer == TorrentPeer(peer_id, peer_addr, now, left)
    IN  /\ last' = [op |-> "announce", info_hash |-> info_hash, peer_id |-> peer_id,
                     event |-> event, res |-> res,
                     prior |-> PriorRecord(torrents, info_hash, peer_id)]
        /\ IF res = "Ok"
           THEN /\ UpdateTorrentWithPeerAndGetStats(info_hash, peer, event, db_ok)
                /\ ann' = [ann EXCEPT ![<<info_hash, peer_id>>] =
                                 IF event = "Stopped" THEN NoAnn ELSE now]
           ELSE UNCHANGED <<torrents, db_torrents, ann>>
        /\ UNCHANGED <<auxVars, now, cookieVars, mode, cfg, keys, whitelist, db_keys,
                       db_whitelist, udp_conn>>

\* TorrentTracker::cleanup_torrents at the clock's instant, and its record
SweepRegistry ==
    /\ torrents' = cleanup_torrents(torrents, cfg, now)
    /\ ann' = [x \in DOMAIN ann |->
                 IF ann[x] # NoAnn /\ now - ann[x] > MaxPeerAge THEN NoAnn ELSE ann[x]]
    /\ last' = [op |-> "cleanup_torrents",
                 removed |-> {x \in InfoHashes \X PeerIds :
                                /\ x[2] \in DOMAIN PeersOf(torrents, x[1])
                                /\ x[2] \notin DOMAIN PeersOf(torrents', x[1])},
                 pruned |-> DOMAIN torrents \ DOMAIN torrents']
    /\ UNCHANGED <<now, cookieVars, mode, cfg, keys, whitelist, db_keys,
                   db_whitelist, db_torrents, udp_conn>>

\* TorrentTracker::cleanup_torrents, called directly
CleanupTorrents ==
    /\ SweepRegistry
    /\ UNCHANGED auxVars

\* TorrentTracker::load_persistent_torrents
LoadPersistentTorrents(db_ok) ==
    /\ torrents' = IF db_ok THEN load_persistent_torrents(torrents, db_torrents)
                   ELSE torrents
    /\ last' = [op |-> "load_persistent_torrents", res |-> IF db_ok THEN "Ok" ELSE "Err"]
    /\ UNCHANGED <<auxVars, now, cookieVars, mode, cfg, keys, whitelist, db_keys,
                   db_whitelist, db_torrents, udp_conn, ann>>

\* The clock moves on to instant t.
ClockAdvance(t) ==
    /\ t > now
    /\ now' = t
    /\ last' = [op |-> "clock"]
    /\ UNCHANGED <<auxVars, cookieVars, mode, cfg, keys, whitelist, torrents, db_keys,
                   db_whitelist, db_torrents, udp_conn, ann>>

(***************************************************************************)
(* The registry under announces, sweeps and loads, in public mode.         *)
(***************************************************************************)
InitSwarm ==
    /\ secret = 0
    /\ ck_issue = NoCall
    /\ ck_check = NoCall
    /\ now = 0
    /\ mode = "Public"
    /\ cfg \in [persistent : BOOLEAN, pruning : BOOLEAN]
    /\ keys = EmptyMap
    /\ whitelist = {}
    /\ torrents = EmptyMap
    /\ db_keys = EmptyMap
    /\ db_whitelist = {}
    /\ db_torrents \in {EmptyMap, [h \in InfoHashes |-> 1]}
    /\ udp_conn = NoCall
    /\ last = [op |-> "init"]
    /\ ann = [x \in InfoHashes \X PeerIds |-> NoAnn]
    /\ AuxInit

\* Announces are drawn for one info hash; the other enters the registry
\* through load_persistent_torrents only.
SwarmHashes == {"h1"}

NextSwarm ==
    \/ \E h \in SwarmHashes, p \in PeerIds, a \in PeerAddrs, l \in Lefts,
          e \in Events, db_ok \in BOOLEAN :
            Announce(h, p, a, l, e, NoneOpt, db_ok)
    \/ CleanupTorrents
    \/ \E db_ok \in BOOLEAN : LoadPersistentTorrents(db_ok)
    \/ \E t \in {now + 1} \cap (0..MaxTime) : ClockAdvance(t)

SpecSwarm == InitSwarm /\ [][NextSwarm]_vars

(***************************************************************************)
(* C4 .. C7: the peer set and the completed counter of an entry.           *)
(***************************************************************************)
AnnounceDone(l) == l.op = "announce" /\ l.res = "Ok"

\* C4: while the last announce of peer P on torrent T is a non-Stopped one that
\* no sweep has expired, the entry of T holds exactly one record with P's
\* peer id, and holds it under the key P.
C4_PeerAppearsOnce ==
    \A x \in DOMAIN ann :
        ann[x] # NoAnn =>
            LET peers == PeersOf(torrents, x[1])
            IN  /\ x[2] \in DOMAIN peers
                /\ peers[x[2]].peer_id = x[2]
                /\ Cardinality({q \in DOMAIN peers : peers[q].peer_id = x[2]}) = 1

\* Both peers are in force on h1 after a sweep that ran later than p1's announce.
C4_Witness ==
    /\ last.op = "cleanup_torrents"
    /\ ann[<<"h1", "p1">>] # NoAnn
    /\ ann[<<"h1", "p2">>] # NoAnn
    /\ ann[<<"h1", "p1">>] < now
    /\ DOMAIN PeersOf(torrents, "h1") = {"p1", "p2"}

\* C5: the step that processes an Announce with event Stopped from P on T
\* leaves no record of P in the peer set of T and does not change completed(T).
C5_StoppedRemovesPeer ==
    [][(AnnounceDone(last') /\ last'.event = "Stopped") =>
          LET peers == PeersOf(torrents', last'.info_hash)
          IN  /\ last'.peer_id \notin DOMAIN peers
              /\ \A q \in DOMAIN peers : peers[q].peer_id # last'.peer_id
              /\ CompletedOf(torrents', last'.info_hash)
                    = CompletedOf(torrents, last'.info_hash)]_vars

\* A Stopped announce of a stored seeder was processed, with completed > 0.
C5_Witness ==
    /\ AnnounceDone(last)
    /\ last.event = "Stopped"
    /\ last.prior = "seeder"
    /\ CompletedOf(torrents, last.info_hash) > 0
    /\ last.peer_id \notin DOMAIN PeersOf(torrents, last.info_hash)

\* C6: over any step (announce, sweep, load of the persistent torrents) that
\* keeps the entry of T in the registry, completed(T) does not decrease.
C6_CompletedNeverDecreases ==
    [][\A h \in InfoHashes :
          (h \in DOMAIN torrents /\ h \in DOMAIN torrents')
              => torrents'[h].completed >= torrents[h].completed]_vars

\* A load ran while the store held a smaller counter than the registry.
C6_Witness ==
    /\ last.op = "load_persistent_torrents"
    /\ last.res = "Ok"
    /\ "h1" \in DOMAIN torrents
    /\ "h1" \in DOMAIN db_torrents
    /\ db_torrents["h1"] < torrents["h1"].completed

\* C7: the step that processes an announce with event Completed from P on T
\* adds exactly 1 to completed(T) when P was absent or stored as a leecher,
\* and leaves completed(T) as it was when P was stored as a seeder.
C7_CompletedCountedOnce ==
    [][(AnnounceDone(last') /\ last'.event = "Completed") =>
          LET h == last'.info_hash
              prior == PeersOf(torrents, h)
              was_seeder == /\ last'.peer_id \in DOMAIN prior
                            /\ prior[last'.peer_id].left = 0
          IN  CompletedOf(torrents', h)
                = CompletedOf(torrents, h) + (IF was_seeder THEN 0 ELSE 1)]_vars

\* A repeated Completed of the only peer, already a seeder: the counter is 1.
C7_Witness ==
    /\ AnnounceDone(last)
    /\ last.event = "Completed"
    /\ last.prior = "seeder"
    /\ DOMAIN PeersOf(torrents, last.info_hash) = {last.peer_id}
    /\ CompletedOf(torrents, last.info_hash) = 1
    /\ ~cfg.pruning
    /\ db_torrents = EmptyMap

(***************************************************************************)
(* Key and whitelist administration, and the policy gate, as actions.      *)
(***************************************************************************)

\* TorrentTracker::generate_auth_key: the store first, then the key map
GenerateAuthKey(key, lifetime, db_ok) ==
    LET auth_key == key_generate_auth_key(key, lifetime, now)
    IN  /\ db_keys' = IF db_ok THEN MapInsert(db_keys, key, auth_key) ELSE db_keys
        /\ keys' = IF db_ok THEN MapInsert(keys, key, auth_key) ELSE keys
        /\ last' = [op |-> "generate_auth_key", key |-> key, lifetime |-> lifetime,
                     res |-> IF db_ok THEN "Ok" ELSE "Err"]
        /\ UNCHANGED <<auxVars, now, cookieVars, mode, cfg, whitelist, torrents,
                       db_whitelist, db_torrents, udp_conn, ann>>

\* TorrentTracker::remove_auth_key
RemoveAuthKey(key, db_ok) ==
    /\ db_keys' = IF db_ok THEN MapRemove(db_keys, key) ELSE db_keys
    /\ keys' = IF db_ok THEN MapRemove(keys, key) ELSE keys
    /\ last' = [op |-> "remove_auth_key", key |-> key,
                 res |-> IF db_ok THEN "Ok" ELSE "Err"]
    /\ UNCHANGED <<auxVars, now, cookieVars, mode, cfg, whitelist, torrents,
                   db_whitelist, db_torrents, udp_conn, ann>>

\* TorrentTracker::verify_auth_key for a presented key
VerifyAuthKey(key) ==
    /\ last' = [op |-> "verify_auth_key", key |-> key,
                 res |-> verify_auth_key(keys, AuthKey_from_string(key), now)]
    /\ UNCHANGED <<auxVars, now, cookieVars, mode, cfg, keys, whitelist, torrents, db_keys,
                   db_whitelist, db_torrents, udp_conn, ann>>

\* TorrentTracker::load_keys: clear, then insert what the store returned
LoadKeys(db_ok) ==
    /\ keys' = IF db_ok THEN db_keys ELSE keys
    /\ last' = [op |-> "load_keys", res |-> IF db_ok THEN "Ok" ELSE "Err"]
    /\ UNCHANGED <<auxVars, now, cookieVars, mode, cfg, whitelist, torrents, db_keys,
                   db_whitelist, db_torrents, udp_conn, ann>>

\* TorrentTracker::add_torrent_to_whitelist
AddTorrentToWhitelist(info_hash, db_ok) ==
    /\ db_whitelist' = IF db_ok THEN db_whitelist \cup {info_hash} ELSE db_whitelist
    /\ whitelist' = IF db_ok THEN whitelist \cup {info_hash} ELSE whitelist
    /\ last' = [op |-> "add_torrent_to_whitelist", info_hash |-> info_hash,
                 res |-> IF db_ok THEN "Ok" ELSE "Err"]
    /\ UNCHANGED <<auxVars, now, cookieVars, mode, cfg, keys, torrents, db_keys,
                   db_torrents, udp_conn, ann>>

\* TorrentTracker::remove_torrent_from_whitelist
RemoveTorrentFromWhitelist(info_hash, db_ok) ==
    /\ db_whitelist' = IF db_ok THEN db_whitelist \ {info_hash} ELSE db_whitelist
    /\ whitelist' = IF db_ok THEN whitelist \ {info_hash} ELSE whitelist
    /\ last' = [op |-> "remove_torrent_from_whitelist", info_hash |-> info_hash,
                 res |-> IF db_ok THEN "Ok" ELSE "Err"]
    /\ UNCHANGED <<auxVars, now, cookieVars, mode, cfg, keys, torrents, db_keys,
                   db_torrents, udp_conn, ann>>

\* TorrentTracker::load_whitelist
LoadWhitelist(db_ok) ==
    /\ whitelist' = IF db_ok THEN db_whitelist ELSE whitelist
    /\ last' = [op |-> "load_whitelist", res |-> IF db_ok THEN "Ok" ELSE "Err"]
    /\ UNCHANGED <<auxVars, now, cookieVars, mode, cfg, keys, torrents, db_keys,
                   db_whitelist, db_torrents, udp_conn, ann>>

\* TorrentTracker::authenticate_request for a request's info hash and key
AuthenticateRequest(info_hash, key) ==
    /\ last' = [op |-> "authenticate_request", info_hash |-> info_hash, key |-> key,
                 res |-> authenticate_request(mode, keys, whitelist, info_hash, key, now)]
    /\ UNCHANGED <<auxVars, now, cookieVars, mode, cfg, keys, whitelist, torrents, db_keys,
                   db_whitelist, db_torrents, udp_conn, ann>>

\* The keys a request can present: none, or any key string.
PresentedKeys == {NoneOpt} \cup {Some(AuthKey_from_string(k)) : k \in KeyStrings}

(***************************************************************************)
(* The key map under issue, revocation, reload and the passing of time.    *)
(***************************************************************************)
InitKeys ==
    /\ secret = 0
    /\ ck_issue = NoCall
    /\ ck_check = NoCall
    /\ now = 0
    /\ mode = "Private"
    /\ cfg = [persistent |-> FALSE, pruning |-> FALSE]
    /\ keys = EmptyMap
    /\ whitelist = {}
    /\ torrents = EmptyMap
    /\ db_keys \in {EmptyMap, [k \in {"k1"} |-> AuthKey_from_string("k1")]}
    /\ db_whitelist = {}
    /\ db_torrents = EmptyMap
    /\ udp_conn = NoCall
    /\ last = [op |-> "init"]
    /\ ann = [x \in InfoHashes \X PeerIds |-> NoAnn]
    /\ AuxInit

NextKeys ==
    \/ \E k \in KeyStrings, lt \in 0..MaxLifetime, db_ok \in BOOLEAN :
            GenerateAuthKey(k, lt, db_ok)
    \/ \E k \in KeyStrings, db_ok \in BOOLEAN : RemoveAuthKey(k, db_ok)
    \/ \E k \in KeyStrings : VerifyAuthKey(k)
    \/ \E db_ok \in BOOLEAN : LoadKeys(db_ok)
    \/ \E t \in {now + 1} \cap (0..MaxTime) : ClockAdvance(t)

SpecKeys == InitKeys /\ [][NextKeys]_vars

(***************************************************************************)
(* The tracker in any mode: keys, whitelist and gated announces.  One key  *)
(* is issued and revoked, the other key string stays unknown.              *)
(***************************************************************************)
InitAuth ==
    /\ secret = 0
    /\ ck_issue = NoCall
    /\ ck_check = NoCall
    /\ now = 0
    /\ mode \in Modes
    /\ cfg = [persistent |-> FALSE, pruning |-> FALSE]
    /\ keys = EmptyMap
    /\ whitelist = {}
    /\ torrents = EmptyMap
    /\ db_keys = EmptyMap
    /\ db_whitelist = {}
    /\ db_torrents = EmptyMap
    /\ udp_conn = NoCall
    /\ last = [op |-> "init"]
    /\ ann = [x \in InfoHashes \X PeerIds |-> NoAnn]
    /\ AuxInit

NextAuth ==
    \/ GenerateAuthKey("k1", MaxLifetime, TRUE)
    \/ RemoveAuthKey("k1", TRUE)
    \/ \E h \in InfoHashes : AddTorrentToWhitelist(h, TRUE)
    \/ \E h \in InfoHashes : RemoveTorrentFromWhitelist(h, TRUE)
    \/ \E h \in InfoHashes, key \in PresentedKeys : AuthenticateRequest(h, key)
    \/ \E h \in InfoHashes, key \in PresentedKeys :
            Announce(h, "p1", "a1", 1, "Started", key, TRUE)
    \/ \E t \in {now + 1} \cap (0..MaxTime) : ClockAdvance(t)

SpecAuth == InitAuth /\ [][NextAuth]_vars

(***************************************************************************)
(* C8 .. C10: the policy gate and the keys.                                *)
(***************************************************************************)

\* The key map holds the key string with a valid_until strictly later than t.
StoredAndLive(ks, k, t) ==
    /\ k \in DOMAIN ks
    /\ ks[k].valid_until # NoneOpt
    /\ \A u \in ks[k].valid_until : u > t

\* C8: authenticate_request is Ok exactly when (the mode is not private or
\* private_listed, or a key is supplied and verifies) and (the mode is not
\* listed or private_listed, or the info hash is whitelisted); always Ok in
\* public mode; otherwise PeerNotAuthenticated without a key, PeerKeyNotValid
\* with a key that does not verify, TorrentNotWhitelisted for an info hash
\* that is not admitted, the key being decided before the whitelist.
C8_GateDecision ==
    last.op = "authenticate_request" =>
        LET private == mode \in {"Private", "PrivateListed"}
            listed == mode \in {"Listed", "PrivateListed"}
            supplied == last.key # NoneOpt
            verifies == supplied /\ \A k \in last.key : StoredAndLive(keys, k.key, now)
            admitted == last.info_hash \in whitelist
        IN  /\ (last.res = "Ok") <=> ((~private \/ verifies) /\ (~listed \/ admitted))
            /\ mode = "Public" => last.res = "Ok"
            /\ (last.res = "PeerNotAuthenticated") <=> (private /\ ~supplied)
            /\ (last.res = "PeerKeyNotValid") <=> (private /\ supplied /\ ~verifies)
            /\ (last.res = "TorrentNotWhitelisted")
                  <=> (listed /\ ~admitted /\ (~private \/ verifies))

\* Private-listed mode, an expired key and an info hash off the whitelist:
\* the key decides.
C8_Witness ==
    /\ last.op = "authenticate_request"
    /\ mode = "PrivateListed"
    /\ last.key = Some(AuthKey_from_string("k1"))
    /\ "k1" \in DOMAIN keys
    /\ ~StoredAndLive(keys, "k1", now)
    /\ last.info_hash \notin whitelist
    /\ whitelist # {}
    /\ last.res = "PeerKeyNotValid"

\* C9: the step that processes an announce the policy gate rejects leaves the
\* swarm registry, the key map and the whitelist as they were, and creates no
\* entry for the rejected info hash.
C9_RejectedChangesNothing ==
    [][(last'.op = "announce" /\ last'.res # "Ok") =>
          /\ torrents' = torrents
          /\ keys' = keys
          /\ whitelist' = whitelist
          /\ (last'.info_hash \notin DOMAIN torrents
                => last'.info_hash \notin DOMAIN torrents')]_vars

\* An announce was rejected for an info hash off the whitelist that has no
\* entry, while the registry holds another torrent.
C9_Witness ==
    /\ last.op = "announce"
    /\ last.res = "TorrentNotWhitelisted"
    /\ last.info_hash \notin DOMAIN torrents
    /\ torrents # EmptyMap
    /\ keys # EmptyMap

\* C10: a presented key verifies exactly while the key map holds its key
\* string with a valid_until strictly later than now; it is KeyExpired once
\* now >= the stored valid_until and KeyInvalid when the key map holds no
\* such key; generate_auth_key(lifetime) stores valid_until = now + lifetime,
\* and a completed remove_auth_key leaves no entry for the key.
C10_KeyVerifiesWhileLive ==
    /\ last.op = "verify_auth_key" =>
          /\ (last.res = "Ok") <=> StoredAndLive(keys, last.key, now)
          /\ (last.res = "KeyExpired")
                <=> (/\ last.key \in DOMAIN keys
                     /\ \E u \in keys[last.key].valid_until : now >= u)
          /\ last.key \notin DOMAIN keys => last.res = "KeyInvalid"
    /\ (last.op = "generate_auth_key" /\ last.res = "Ok") =>
          /\ last.key \in DOMAIN keys
          /\ keys[last.key].valid_until = Some(now + last.lifetime)
    /\ (last.op = "remove_auth_key" /\ last.res = "Ok") =>
          last.key \notin DOMAIN keys

\* A generated key is presented at the very instant it expires.
C10_Witness ==
    /\ last.op = "verify_auth_key"
    /\ last.key \in DOMAIN keys
    /\ keys[last.key].valid_until = Some(now)
    /\ now > 0
    /\ last.res = "KeyExpired"

(***************************************************************************)
(* The UDP dispatch (servers/udp/server/launcher.rs process_request and    *)
(* the packet handler it calls): Connect issues a connection id for the    *)
(* sender, Announce and Scrape verify the presented connection id against  *)
(* the sender before the handler runs.  A client presents the connection   *)
(* id of the last Connect, from any address.                               *)
(***************************************************************************)
UdpAddrs == {[ver |-> 4, ip |-> 0, port |-> 0],
             [ver |-> 4, ip |-> 1, port |-> 0],
             [ver |-> 6, ip |-> 0, port |-> 0]}

\* The instants the clock of the UDP scenarios moves on to.
UdpInstants == {LIFETIME, LIFETIME + 5}

UdpConnect(from) ==
    /\ udp_conn' = [called |-> TRUE, addr |-> from, at |-> now,
                     id |-> new_connection_id(secret, from, now)]
    /\ last' = [op |-> "udp_connect", from |-> from, reply |-> "Connect"]
    /\ UNCHANGED <<auxVars, now, cookieVars, mode, cfg, keys, whitelist, torrents, db_keys,
                   db_whitelist, db_torrents, ann>>

UdpAnnounce(from, info_hash, peer_id, left, event, db_ok) ==
    LET verified == verify_connection_id(secret, udp_conn.id, from, now)
        res == authenticate_request(mode, keys, whitelist, info_hash, NoneOpt, now)
        peer == TorrentPeer(peer_id, from, now, left)
    IN  /\ udp_conn.called
        /\ last' = [op |-> "udp_announce", from |-> from, verified |-> verified,
                     info_hash |-> info_hash, peer_id |-> peer_id, event |-> event,
                     reply |-> IF verified = "Ok" /\ res = "Ok" THEN "Announce"
                               ELSE "Error"]
        /\ IF verified = "Ok" /\ res = "Ok"
           THEN /\ UpdateTorrentWithPeerAndGetStats(info_hash, peer, event, db_ok)
                /\ ann' = [ann EXCEPT ![<<info_hash, peer_id>>] =
                                 IF event = "Stopped" THEN NoAnn ELSE now]
           ELSE UNCHANGED <<torrents, db_torrents, ann>>
        /\ UNCHANGED <<auxVars, now, cookieVars, mode, cfg, keys, whitelist, db_keys,
                       db_whitelist, udp_conn>>

UdpScrape(from, info_hash) ==
    LET verified == verify_connection_id(secret, udp_conn.id, from, now)
        stats == get_stats(IF info_hash \in DOMAIN torrents THEN torrents[info_hash]
                           ELSE TorrentEntry_new)
    IN  /\ udp_conn.called
        /\ last' = [op |-> "udp_scrape", from |-> from, verified |-> verified,
                     info_hash |-> info_hash,
                     reply |-> IF verified = "Ok" THEN stats ELSE "Error"]
        /\ UNCHANGED <<auxVars, now, cookieVars, mode, cfg, keys, whitelist, torrents, db_keys,
                       db_whitelist, db_torrents, udp_conn, ann>>

InitUdp ==
    /\ secret \in 0..MaxSecret
    /\ ck_issue = NoCall
    /\ ck_check = NoCall
    /\ now = 0
    /\ mode = "Public"
    /\ cfg = [persistent |-> FALSE, pruning |-> FALSE]
    /\ keys = EmptyMap
    /\ whitelist = {}
    /\ torrents = EmptyMap
    /\ db_keys = EmptyMap
    /\ db_whitelist = {}
    /\ db_torrents = EmptyMap
    /\ udp_conn = NoCall
    /\ last = [op |-> "init"]
    /\ ann = [x \in InfoHashes \X PeerIds |-> NoAnn]
    /\ AuxInit

NextUdp ==
    \/ \E from \in UdpAddrs : UdpConnect(from)
    \/ \E from \in UdpAddrs, e \in {"Started", "Completed", "Stopped"} :
            UdpAnnounce(from, "h1", "p1", 0, e, TRUE)
    \/ \E from \in UdpAddrs, h \in InfoHashes : UdpScrape(from, h)
    \/ \E t \in UdpInstants : ClockAdvance(t)

SpecUdp == InitUdp /\ [][NextUdp]_vars

(***************************************************************************)
(* C3: a connection id that fails verification.                            *)
(***************************************************************************)
UdpRequest(l) == l.op \in {"udp_announce", "udp_scrape"}

Swept(l) == l.op = "cleanup_torrents"

\* The peers of entry h that are older than the maximum age at instant t.
StalePeers(ts, h, t) == {p \in DOMAIN ts[h].peers : t - ts[h].peers[p].updated > MaxPeerAge}

\* C11: when a sweep run at instant now returns, every peer still present in
\* any entry satisfies now - updated <= max_peer_age, and every peer the
\* sweep removed had now - updated > max_peer_age.
C11_SweepRemovesExactlyStale ==
    [][Swept(last') =>
          /\ \A h \in DOMAIN torrents' : \A p \in DOMAIN torrents'[h].peers :
                 now - torrents'[h].peers[p].updated <= MaxPeerAge
          /\ \A h \in DOMAIN torrents : \A p \in DOMAIN torrents[h].peers :
                 p \notin DOMAIN PeersOf(torrents', h) => p \in StalePeers(torrents, h, now)
          /\ \A h \in DOMAIN torrents' : \A p \in DOMAIN torrents'[h].peers :
                 torrents'[h].peers[p] = torrents[h].peers[p]]_vars

\* A sweep has removed one peer and kept another whose age is the maximum age.
C11_Witness ==
    /\ Swept(last)
    /\ <<"h1", "p1">> \in last.removed
    /\ "p2" \in DOMAIN PeersOf(torrents, "h1")
    /\ now - torrents["h1"].peers["p2"].updated = MaxPeerAge

\* C12: with peerless pruning enabled, an entry the sweep leaves without peers
\* stays in the registry iff persistence is enabled and its completed counter
\* is > 0; with pruning disabled a sweep removes no entry; an entry that still
\* has peers is never removed.
C12_PeerlessPruning ==
    [][Swept(last') =>
          \A h \in DOMAIN torrents :
             LET peerless == StalePeers(torrents, h, now) = DOMAIN torrents[h].peers
             IN  /\ ~cfg.pruning => h \in DOMAIN torrents'
                 /\ ~peerless => h \in DOMAIN torrents'
                 /\ (cfg.pruning /\ peerless) =>
                       (h \in DOMAIN torrents' <=>
                           (cfg.persistent /\ torrents[h].completed > 0))
                 /\ h \in DOMAIN torrents' =>
                       torrents'[h].completed = torrents[h].completed]_vars

\* With pruning and persistence on, a sweep has removed the last peer of h1
\* and kept the peerless h1 for its completed count.
C12_Witness ==
    /\ Swept(last)
    /\ cfg.pruning /\ cfg.persistent
    /\ last.removed # {}
    /\ "h1" \in DOMAIN torrents
    /\ DOMAIN torrents["h1"].peers = {}
    /\ torrents["h1"].completed > 0
    /\ last.pruned = {}

(***************************************************************************)
(* The torrent cleanup job (jobs/torrent_cleanup.rs): an interval timer    *)
(* whose first tick completes at once and is consumed before the loop, so  *)
(* the first sweep runs one interval after the start, then one sweep per   *)
(* interval.  A tick that is due fires before the clock moves on.          *)
(***************************************************************************)
SweepInterval == 2     \* settings.inactive_peer_cleanup_interval, in seconds
MaxStartTime == 1      \* the job starts at an instant of 0..MaxStartTime
MaxJobTime == 6        \* the clock of the job scenarios runs over 0..MaxJobTime

\* A timer that lets every other deadline pass.
interval_tick_skips_one(deadline, period) == deadline + 2 * period

\* tokio::time::interval: the deadline that follows a deadline
interval_tick(deadline, period) == deadline + period

\* start_job: the timer is created and its immediate first tick awaited.
StartJob ==
    /\ ~job.started
    /\ job' = [started |-> TRUE, start |-> now,
                next_tick |-> interval_tick(now, SweepInterval)]
    /\ last' = [op |-> "start_job"]
    /\ UNCHANGED <<now, cookieVars, mode, cfg, keys, whitelist, torrents, db_keys,
                   db_whitelist, db_torrents, udp_conn, ann, lock, tasks,
                   active_requests, svcVars>>

\* One round of the job's loop: the timer ticks and the registry is swept.
JobTick ==
    /\ job.started
    /\ now = job.next_tick
    /\ SweepRegistry
    /\ job' = [job EXCEPT !.next_tick = interval_tick(job.next_tick, SweepInterval)]
    /\ UNCHANGED <<lock, tasks, active_requests, svcVars>>

InitSweeper ==
    /\ secret = 0
    /\ ck_issue = NoCall
    /\ ck_check = NoCall
    /\ now \in 0..MaxStartTime
    /\ mode = "Public"
    /\ cfg \in [persistent : {FALSE}, pruning : BOOLEAN]
    /\ keys = EmptyMap
    /\ whitelist = {}
    /\ torrents = EmptyMap
    /\ db_keys = EmptyMap
    /\ db_whitelist = {}
    /\ db_torrents = EmptyMap
    /\ udp_conn = NoCall
    /\ last = [op |-> "init"]
    /\ ann = [x \in InfoHashes \X PeerIds |-> NoAnn]
    /\ AuxInit

NextSweeper ==
    \/ StartJob
    \/ JobTick
    \/ \E p \in PeerIds, l \in Lefts, e \in {"Started", "Completed", "Stopped"} :
            job.started /\ Announce("h1", p, "a1", l, e, NoneOpt, TRUE)
    \/ \E t \in {now + 1} \cap (0..MaxJobTime) :
            job.started /\ now < job.next_tick /\ ClockAdvance(t)

SpecSweeper == InitSweeper /\ [][NextSweeper]_vars

TORRENT_PEERS_LIMIT == 74

MaxSwarm == 76         \* the swarm holds 0..MaxSwarm peers when the announce arrives

NumWants == {0, 1, 2, TORRENT_PEERS_LIMIT - 1, TORRENT_PEERS_LIMIT,
             TORRENT_PEERS_LIMIT + 1, 200}

ListAnnouncers == {1, 2, 3}

\* The address a numbered peer is stored with.
StoredAddr(i) == IF i = 2 THEN 1 ELSE i

\* An address no peer of the swarm is stored with.
OtherAddr == 0

Min(a, b) == IF a <= b THEN a ELSE b

\* The first n elements of a sequence, all of them when it is shorter.
Take(n, seq) == SubSeq(seq, 1, Min(n, Len(seq)))

\* The values of a peer map in the map's iteration order.
RECURSIVE PeersInOrder(_, _)
PeersInOrder(peers, ids) ==
    IF ids = {} THEN << >>
    ELSE LET first == CHOOSE i \in ids : \A j \in ids : i <= j
         IN  <<peers[first]>> \o PeersInOrder(peers, ids \ {first})

RECURSIVE Filter(_, _)
Filter(seq, addr) ==
    IF seq = << >> THEN << >>
    ELSE (IF Head(seq).peer_addr # addr THEN <<Head(seq)>> ELSE << >>)
            \o Filter(Tail(seq), addr)

\* TorrentEntry::get_peers(Some(client_addr)): the peers stored with another
\* address than client_addr, at most the peers limit of them.
get_peers(entry, client_addr) ==
    Take(TORRENT_PEERS_LIMIT,
         Filter(PeersInOrder(entry.peers, DOMAIN entry.peers), client_addr))

\* A lookup that chains the entry's peers twice.
get_torrent_peers_chained_twice(ts, info_hash, client_addr) ==
    IF info_hash \notin DOMAIN ts THEN << >>
    ELSE get_peers(ts[info_hash], client_addr) \o get_peers(ts[info_hash], client_addr)

\* TorrentTracker::get_torrent_peers
get_torrent_peers(ts, info_hash, client_addr) ==
    IF info_hash \notin DOMAIN ts THEN << >>
    ELSE get_peers(ts[info_hash], client_addr)

\* The announce handler for a numbered peer: the registry update, then the
\* peer list for the client address, cut to numwant.  stored_addr is the
\* address the peer is stored with (the client address, or the configured
\* external address that replaces it).
AnnounceForPeers(peer_id, client_addr, stored_addr, numwant) ==
    LET peer == TorrentPeer(peer_id, stored_addr, now, 1)
        u == update_torrent_with_peer(torrents, "h1", peer, "None")
    IN  /\ last.op = "init"
        /\ torrents' = u.torrents
        /\ last' = [op |-> "announce_peers", peer_id |-> peer_id,
                     client_addr |-> client_addr, numwant |-> numwant,
                     peers |-> Take(numwant,
                                    get_torrent_peers(u.torrents, "h1", client_addr))]
        /\ UNCHANGED <<auxVars, now, cookieVars, mode, cfg, keys, whitelist, db_keys,
                       db_whitelist, db_torrents, udp_conn, ann>>

InitPeerList ==
    /\ secret = 0
    /\ ck_issue = NoCall
    /\ ck_check = NoCall
    /\ now = 0
    /\ mode = "Public"
    /\ cfg = [persistent |-> FALSE, pruning |-> FALSE]
    /\ keys = EmptyMap
    /\ whitelist = {}
    /\ \E n \in 0..MaxSwarm :
          torrents = IF n = 0 THEN EmptyMap
                     ELSE [h \in {"h1"} |->
                             [peers |-> [i \in 1..n |-> TorrentPeer(i, StoredAddr(i), 0, 1)],
                              completed |-> 0]]
    /\ db_keys = EmptyMap
    /\ db_whitelist = {}
    /\ db_torrents = EmptyMap
    /\ udp_conn = NoCall
    /\ last = [op |-> "init"]
    /\ ann = [x \in InfoHashes \X PeerIds |-> NoAnn]
    /\ AuxInit

NextPeerList ==
    \E i \in ListAnnouncers, from_other \in BOOLEAN, stored_other \in BOOLEAN,
       numwant \in NumWants :
        AnnounceForPeers(i, IF from_other THEN OtherAddr ELSE StoredAddr(i),
                         IF stored_other THEN OtherAddr ELSE StoredAddr(i), numwant)

SpecPeerList == InitPeerList /\ [][NextPeerList]_vars

PeerListed(l) == l.op = "announce_peers"

C15_OwnRecordExcludedOnly ==
    PeerListed(last) =>
        LET listed == {last.peers[i].peer_id : i \in 1..Len(last.peers)}
            others == DOMAIN torrents["h1"].peers \ {last.peer_id}
        IN  /\ last.peer_id \notin listed
            /\ Len(last.peers) < Min(last.numwant, TORRENT_PEERS_LIMIT)
                  => listed = others

(***************************************************************************)
(* The bulk count query of core/services/torrent.rs: get_torrents reads    *)
(* the registry and returns one BasicInfo per info hash that has an entry. *)
(***************************************************************************)
MaxScrapeLen == 2      \* a query lists 1..MaxScrapeLen info hashes

ScrapeLists == UNION {[1..n -> InfoHashes] : n \in 1..MaxScrapeLen}

BasicInfo(info_hash, stats) ==
    [info_hash |-> info_hash, seeders |-> stats.seeders,
     completed |-> stats.completed, leechers |-> stats.leechers]

\* get_torrents(tracker, info_hashes) -> Vec<BasicInfo>
RECURSIVE get_torrents(_, _)
get_torrents(ts, info_hashes) ==
    IF info_hashes = << >> THEN << >>
    ELSE LET info_hash == Head(info_hashes)
         IN  (IF info_hash \in DOMAIN ts
              THEN <<BasicInfo(info_hash, get_stats(ts[info_hash]))>>
              ELSE << >>)
                \o get_torrents(ts, Tail(info_hashes))

GetTorrents(info_hashes) ==
    /\ last' = [op |-> "get_torrents", info_hashes |-> info_hashes,
                 reply |-> get_torrents(torrents, info_hashes)]
    /\ UNCHANGED <<auxVars, now, cookieVars, mode, cfg, keys, whitelist, torrents,
                   db_keys, db_whitelist, db_torrents, udp_conn, ann>>

InitScrape ==
    /\ secret = 0
    /\ ck_issue = NoCall
    /\ ck_check = NoCall
    /\ now = 0
    /\ mode = "Public"
    /\ cfg = [persistent |-> FALSE, pruning |-> FALSE]
    /\ keys = EmptyMap
    /\ whitelist = {}
    /\ torrents = EmptyMap
    /\ db_keys = EmptyMap
    /\ db_whitelist = {}
    /\ db_torrents = EmptyMap
    /\ udp_conn = NoCall
    /\ last = [op |-> "init"]
    /\ ann = [x \in InfoHashes \X PeerIds |-> NoAnn]
    /\ AuxInit

NextScrape ==
    \/ \E h \in InfoHashes, l \in Lefts, e \in {"Started", "Completed", "Stopped"} :
            Announce(h, "p1", "a1", l, e, NoneOpt, TRUE)
    \/ \E info_hashes \in ScrapeLists : GetTorrents(info_hashes)

SpecScrape == InitScrape /\ [][NextScrape]_vars

Scraped(l) == l.op = "get_torrents"

\* C16: a scrape never mutates the registry (no entry is created for an
\* unknown info hash, no peer map or counter changes), reports zeros for an
\* info hash with no entry, and two consecutive scrapes of the same list
\* return identical counts.
C16_ScrapeReadsAndReportsZeros ==
    [][Scraped(last') =>
          /\ torrents' = torrents
          /\ db_torrents' = db_torrents
          /\ Len(last'.reply) = Len(last'.info_hashes)
          /\ \A i \in 1..Len(last'.info_hashes) :
                /\ i <= Len(last'.reply)
                /\ last'.reply[i] =
                      BasicInfo(last'.info_hashes[i],
                                IF last'.info_hashes[i] \in DOMAIN torrents
                                THEN get_stats(torrents[last'.info_hashes[i]])
                                ELSE get_stats(TorrentEntry_new))
          /\ (Scraped(last) /\ last.info_hashes = last'.info_hashes)
                => last'.reply = last.reply]_vars

(***************************************************************************)
(* Request tasks on the registry lock.  TorrentTracker.torrents is one     *)
(* tokio RwLock around the whole BTreeMap (tracker.rs 28):                 *)
(* update_torrent_with_peer_and_get_stats and cleanup_torrents take        *)
(* torrents.write(), get_torrent_peers takes torrents.read().  The write   *)
(* guard of an announce lives until the function returns, across the       *)
(* awaited save_persistent_torrent.                                        *)
(***************************************************************************)
TaskIds == {"t1", "t2", "t3"}

TaskKinds == {"announce", "peers", "cleanup"}

\* RwLock::write() can complete: no writer and no reader holds the lock.
CanWrite == lock.writer = None /\ lock.readers = {}

\* RwLock::read() can complete: no writer holds the lock.
CanRead == lock.writer = None

lockFrame == <<now, cookieVars, mode, cfg, keys, whitelist, db_keys, db_whitelist,
               udp_conn, ann, job, active_requests, svcVars>>

\* A request arrives and its task reaches the lock.
TaskStart(t, kind, info_hash, event) ==
    /\ t \notin DOMAIN tasks
    /\ tasks' = MapInsert(tasks, t, [kind |-> kind, info_hash |-> info_hash,
                                       event |-> event, pc |-> "lock"])
    /\ last' = [op |-> "task_start", task |-> t]
    /\ UNCHANGED <<lockFrame, lock, torrents, db_torrents>>

\* let mut torrents = self.torrents.write().await
WriteLock(t) ==
    /\ t \in DOMAIN tasks
    /\ tasks[t].pc = "lock"
    /\ tasks[t].kind \in {"announce", "cleanup"}
    /\ CanWrite
    /\ lock' = [lock EXCEPT !.writer = t]
    /\ tasks' = [tasks EXCEPT ![t].pc = "locked"]
    /\ last' = [op |-> "write_lock", task |-> t]
    /\ UNCHANGED <<lockFrame, torrents, db_torrents>>

\* The entry is found or created and update_peer applied; with persistence
\* on and completed changed the task goes on to await the save.
AnnounceUpdate(t) ==
    /\ t \in DOMAIN tasks
    /\ tasks[t].pc = "locked"
    /\ tasks[t].kind = "announce"
    /\ LET u == update_torrent_with_peer(torrents, tasks[t].info_hash,
                                          TorrentPeer("p1", "a1", now, 0), tasks[t].event)
       IN  /\ u.torrents[tasks[t].info_hash].completed <= MaxCompleted
           /\ torrents' = u.torrents
           /\ tasks' = [tasks EXCEPT ![t].pc =
                            IF cfg.persistent /\ u.stats_updated THEN "save" ELSE "stats"]
    /\ last' = [op |-> "announce_update", task |-> t]
    /\ UNCHANGED <<lockFrame, lock, db_torrents>>

\* database.save_persistent_torrent(..).await returns; its result is dropped.
SaveReturns(t, db_ok) ==
    /\ t \in DOMAIN tasks
    /\ tasks[t].pc = "save"
    /\ db_torrents' = IF db_ok
                       THEN MapInsert(db_torrents, tasks[t].info_hash,
                                      torrents[tasks[t].info_hash].completed)
                       ELSE db_torrents
    /\ tasks' = [tasks EXCEPT ![t].pc = "stats"]
    /\ last' = [op |-> "save_returns", task |-> t]
    /\ UNCHANGED <<lockFrame, lock, torrents>>

\* get_stats, the function returns the TorrentStats and the guard is dropped.
AnnounceReturns(t) ==
    /\ t \in DOMAIN tasks
    /\ tasks[t].pc = "stats"
    /\ lock' = [lock EXCEPT !.writer = None]
    /\ tasks' = MapRemove(tasks, t)
    /\ last' = [op |-> "announce_returns", task |-> t,
                 stats |-> get_stats(torrents[tasks[t].info_hash])]
    /\ UNCHANGED <<lockFrame, torrents, db_torrents>>

\* cleanup_torrents under the write guard, which is dropped at its return.
CleanupReturns(t) ==
    /\ t \in DOMAIN tasks
    /\ tasks[t].pc = "locked"
    /\ tasks[t].kind = "cleanup"
    /\ torrents' = cleanup_torrents(torrents, cfg, now)
    /\ lock' = [lock EXCEPT !.writer = None]
    /\ tasks' = MapRemove(tasks, t)
    /\ last' = [op |-> "cleanup_returns", task |-> t]
    /\ UNCHANGED <<lockFrame, db_torrents>>

\* let read_lock = self.torrents.read().await
ReadLock(t) ==
    /\ t \in DOMAIN tasks
    /\ tasks[t].pc = "lock"
    /\ tasks[t].kind = "peers"
    /\ CanRead
    /\ lock' = [lock EXCEPT !.readers = @ \cup {t}]
    /\ tasks' = [tasks EXCEPT ![t].pc = "reading"]
    /\ last' = [op |-> "read_lock", task |-> t]
    /\ UNCHANGED <<lockFrame, torrents, db_torrents>>

\* get_torrent_peers returns and the read guard is dropped.
PeersReturns(t) ==
    /\ t \in DOMAIN tasks
    /\ tasks[t].pc = "reading"
    /\ lock' = [lock EXCEPT !.readers = @ \ {t}]
    /\ tasks' = MapRemove(tasks, t)
    /\ last' = [op |-> "peers_returns", task |-> t]
    /\ UNCHANGED <<lockFrame, torrents, db_torrents>>

InitLock ==
    /\ secret = 0
    /\ ck_issue = NoCall
    /\ ck_check = NoCall
    /\ now = 0
    /\ mode = "Public"
    /\ cfg \in [persistent : BOOLEAN, pruning : {FALSE}]
    /\ keys = EmptyMap
    /\ whitelist = {}
    /\ torrents = EmptyMap
    /\ db_keys = EmptyMap
    /\ db_whitelist = {}
    /\ db_torrents = EmptyMap
    /\ udp_conn = NoCall
    /\ last = [op |-> "init"]
    /\ ann = [x \in InfoHashes \X PeerIds |-> NoAnn]
    /\ AuxInit

NextLock ==
    \/ \E t \in TaskIds, h \in InfoHashes, e \in {"Started", "Completed"} :
            TaskStart(t, "announce", h, e)
    \/ \E t \in TaskIds : TaskStart(t, "peers", "h1", "None")
    \/ \E t \in TaskIds : TaskStart(t, "cleanup", "h1", "None")
    \/ \E t \in TaskIds : WriteLock(t)
    \/ \E t \in TaskIds : AnnounceUpdate(t)
    \/ \E t \in TaskIds, db_ok \in BOOLEAN : SaveReturns(t, db_ok)
    \/ \E t \in TaskIds : AnnounceReturns(t)
    \/ \E t \in TaskIds : CleanupReturns(t)
    \/ \E t \in TaskIds : ReadLock(t)
    \/ \E t \in TaskIds : PeersReturns(t)

SpecLock == InitLock /\ [][NextLock]_vars

\* C17: registry mutations are serialized per entry: while a task holds write
\* access for info hash T1, an announce waiting on a different info hash T2
\* is able to take its write access; and a waiting reader is never held up
\* while only readers hold the lock.
C17_PerEntrySerialization ==
    \A t1, t2 \in DOMAIN tasks :
        /\ (/\ lock.writer = t1
             /\ tasks[t2].kind = "announce"
             /\ tasks[t2].pc = "lock"
             /\ tasks[t2].info_hash # tasks[t1].info_hash) => CanWrite
        /\ (/\ t1 \in lock.readers
             /\ lock.writer = None
             /\ tasks[t2].kind = "peers"
             /\ tasks[t2].pc = "lock") => CanRead

\* C18: the save of a changed completed counter is only enqueued: no announce
\* holds the registry write access, its reply unsent, while the store
\* operation is outstanding; and a save is outstanding only when persistence
\* is enabled.
C18_ReplyDoesNotWaitForStore ==
    \A t \in DOMAIN tasks :
        tasks[t].pc = "save" => (lock.writer # t /\ cfg.persistent)

(***************************************************************************)
(* The operations that write to the external store, each with a store      *)
(* call that succeeds or fails.                                            *)
(***************************************************************************)
InitStore ==
    /\ secret = 0
    /\ ck_issue = NoCall
    /\ ck_check = NoCall
    /\ now = 0
    /\ mode = "Public"
    /\ cfg = [persistent |-> TRUE, pruning |-> FALSE]
    /\ keys = EmptyMap
    /\ whitelist = {}
    /\ torrents = EmptyMap
    /\ db_keys = EmptyMap
    /\ db_whitelist = {}
    /\ db_torrents = EmptyMap
    /\ udp_conn = NoCall
    /\ last = [op |-> "init"]
    /\ ann = [x \in InfoHashes \X PeerIds |-> NoAnn]
    /\ AuxInit

NextStore ==
    \/ \E k \in KeyStrings, db_ok \in BOOLEAN : GenerateAuthKey(k, MaxLifetime, db_ok)
    \/ \E k \in KeyStrings, db_ok \in BOOLEAN : RemoveAuthKey(k, db_ok)
    \/ \E h \in InfoHashes, db_ok \in BOOLEAN : AddTorrentToWhitelist(h, db_ok)
    \/ \E h \in InfoHashes, db_ok \in BOOLEAN : RemoveTorrentFromWhitelist(h, db_ok)
    \/ \E e \in {"Started", "Completed"}, db_ok \in BOOLEAN :
            Announce("h1", "p1", "a1", 0, e, NoneOpt, db_ok)

SpecStore == InitStore /\ [][NextStore]_vars

StoreWriters == {"generate_auth_key", "remove_auth_key", "add_torrent_to_whitelist",
                 "remove_torrent_from_whitelist", "announce"}

\* C19: an operation that writes to the external store (save_persistent_torrent
\* of an announce, add_to_whitelist, remove_from_whitelist, add_key,
\* remove_key) completes successfully whether or not the store call failed.
C19_StoreFailureDoesNotFailRequest ==
    last.op \in StoreWriters => last.res = "Ok"

(***************************************************************************)
(* The UDP main loop (launcher.rs run_udp_server_main): every received     *)
(* request is spawned as a task; a task that has not finished yet is       *)
(* pushed into the active-requests buffer with force_push.  Tasks are      *)
(* numbered in the order they are spawned.                                 *)
(***************************************************************************)
BufferCapacity == 2    \* the fixed capacity of the active-requests buffer
MaxRequests == 5       \* the loop receives up to MaxRequests requests

\* A push that gives up on the new task when the buffer is full.
force_push_drops_new(buffer, ts, new, oldest_finishes) ==
    IF Len(buffer) < BufferCapacity
    THEN [buffer |-> Append(buffer, new), tasks |-> ts]
    ELSE [buffer |-> buffer, tasks |-> [ts EXCEPT ![new].pc = "aborted"]]

\* ActiveRequests::force_push: with room the handle is appended; with a full
\* buffer the loop yields once (the oldest task finishes in the yield or
\* not), the oldest handle is taken out, aborted when still unfinished, and
\* the new handle inserted.
force_push(buffer, ts, new, oldest_finishes) ==
    IF Len(buffer) < BufferCapacity
    THEN [buffer |-> Append(buffer, new), tasks |-> ts]
    ELSE LET oldest == Head(buffer)
             yielded == IF ts[oldest].pc = "running" /\ oldest_finishes
                        THEN [ts EXCEPT ![oldest].pc = "finished"]
                        ELSE ts
             aborted == IF yielded[oldest].pc = "running"
                        THEN [yielded EXCEPT ![oldest].pc = "aborted"]
                        ELSE yielded
         IN  [buffer |-> Append(Tail(buffer), new), tasks |-> aborted]

loopFrame == <<now, cookieVars, mode, cfg, keys, whitelist, torrents, db_keys,
               db_whitelist, db_torrents, udp_conn, ann, job, lock, svcVars>>

\* One round of the loop: receiver.next(), spawn, is_finished, force_push.
ReceiveRequest(finished_at_once, oldest_finishes) ==
    LET new == Cardinality(DOMAIN tasks) + 1
        spawned == MapInsert(tasks, new,
                             [pc |-> IF finished_at_once THEN "finished" ELSE "running"])
        pushed == force_push(active_requests, spawned, new, oldest_finishes)
    IN  /\ new <= MaxRequests
        /\ IF finished_at_once
           THEN /\ tasks' = spawned
                /\ active_requests' = active_requests
           ELSE /\ tasks' = pushed.tasks
                /\ active_requests' = pushed.buffer
        /\ last' = [op |-> "request", task |-> new, tracked |-> ~finished_at_once,
                     was_full |-> Len(active_requests) = BufferCapacity,
                     oldest |-> IF active_requests = << >> THEN 0
                                ELSE Head(active_requests)]
        /\ UNCHANGED loopFrame

\* A spawned request task runs to its end (process_request returns).
TaskFinishes(t) ==
    /\ t \in DOMAIN tasks
    /\ tasks[t].pc = "running"
    /\ tasks' = [tasks EXCEPT ![t].pc = "finished"]
    /\ last' = [op |-> "task_finishes", task |-> t]
    /\ UNCHANGED <<loopFrame, active_requests>>

InitLoop ==
    /\ secret = 0
    /\ ck_issue = NoCall
    /\ ck_check = NoCall
    /\ now = 0
    /\ mode = "Public"
    /\ cfg = [persistent |-> FALSE, pruning |-> FALSE]
    /\ keys = EmptyMap
    /\ whitelist = {}
    /\ torrents = EmptyMap
    /\ db_keys = EmptyMap
    /\ db_whitelist = {}
    /\ db_torrents = EmptyMap
    /\ udp_conn = NoCall
    /\ last = [op |-> "init"]
    /\ ann = [x \in InfoHashes \X PeerIds |-> NoAnn]
    /\ AuxInit

NextLoop ==
    \/ \E finished_at_once \in BOOLEAN, oldest_finishes \in BOOLEAN :
            ReceiveRequest(finished_at_once, oldest_finishes)
    \/ \E t \in 1..MaxRequests : TaskFinishes(t)

SpecLoop == InitLoop /\ [][NextLoop]_vars

Tracked == {active_requests[i] : i \in 1..Len(active_requests)}

\* C20: the active-requests buffer never tracks more tasks than its capacity,
\* and every unfinished task is tracked; a request that arrives while the
\* buffer is full is inserted as the newest entry and the oldest entry leaves,
\* aborted if it was still unfinished: the new task is never the one dropped.
C20_BufferBoundedNewestKept ==
    /\ Len(active_requests) <= BufferCapacity
    /\ \A i, j \in 1..Len(active_requests) :
          i < j => active_requests[i] < active_requests[j]
    /\ \A t \in DOMAIN tasks : tasks[t].pc = "running" => t \in Tracked
    /\ \A t \in DOMAIN tasks : tasks[t].pc = "aborted" => t \notin Tracked
    /\ (last.op = "request" /\ last.tracked) =>
          /\ active_requests[Len(active_requests)] = last.task
          /\ tasks[last.task].pc # "aborted"
          /\ last.was_full =>
                /\ last.oldest \notin Tracked
                /\ tasks[last.oldest].pc \in {"finished", "aborted"}
                /\ Len(active_requests) = BufferCapacity

\* A request arrived at a full buffer whose oldest task was aborted for it.
C20_Witness ==
    /\ last.op = "request"
    /\ last.tracked
    /\ last.was_full
    /\ tasks[last.oldest].pc = "aborted"
    /\ tasks[last.task].pc = "running"
    /\ Len(active_requests) = BufferCapacity

(***************************************************************************)
(* The halt of a UDP listener (launcher.rs run_with_graceful_shutdown):    *)
(* the serving loop runs as the task `running`; select! waits for it or    *)
(* for the halt task, then stop.abort(), one yield_now, return.  abort()   *)
(* only marks a task: the task is cancelled when it is next scheduled, and *)
(* goes on until then.  Dropping the loop's ActiveRequests aborts the      *)
(* request tasks it tracks.                                                *)
(***************************************************************************)
haltFrame == <<now, cookieVars, mode, cfg, keys, whitelist, torrents, db_keys,
               db_whitelist, db_torrents, udp_conn, ann, job, lock, registry, shutdown>>

\* Drop of ActiveRequests: abort() on every tracked task that is unfinished.
drop_active_requests(ts, buffer) ==
    [t \in DOMAIN ts |->
        IF ts[t].pc = "running" /\ \E i \in 1..Len(buffer) : buffer[i] = t
        THEN [ts[t] EXCEPT !.pc = "cancelling"]
        ELSE ts[t]]

\* One round of the serving loop, while its task has not been cancelled.
ServeRequest(finished_at_once, oldest_finishes) ==
    /\ server.main \in {"running", "cancelling"}
    /\ ReceiveRequest(finished_at_once, oldest_finishes)

\* The halt task resolves (Halted received or global shutdown signal): the
\* select! takes its branch and stop.abort() marks the serving task.
HaltReceived ==
    /\ server.pc = "serving"
    /\ server' = [pc |-> "yielding",
                   main |-> IF server.main = "running" THEN "cancelling" ELSE server.main]
    /\ last' = [op |-> "halt_received"]
    /\ UNCHANGED <<haltFrame, tasks, active_requests>>

\* The serving loop ends by itself (receiver error): its task finishes, its
\* ActiveRequests is dropped, and the select! takes the `running` branch.
MainExits ==
    /\ server.pc = "serving"
    /\ server.main = "running"
    /\ server' = [pc |-> "yielding", main |-> "finished"]
    /\ tasks' = drop_active_requests(tasks, active_requests)
    /\ active_requests' = << >>
    /\ last' = [op |-> "main_exits"]
    /\ UNCHANGED haltFrame

\* The runtime schedules the marked serving task: it is cancelled and its
\* ActiveRequests dropped.
MainCancelled ==
    /\ server.main = "cancelling"
    /\ server' = [server EXCEPT !.main = "cancelled"]
    /\ tasks' = drop_active_requests(tasks, active_requests)
    /\ active_requests' = << >>
    /\ last' = [op |-> "main_cancelled"]
    /\ UNCHANGED haltFrame

\* The runtime schedules a marked request task: it is cancelled.
RequestCancelled(t) ==
    /\ t \in DOMAIN tasks
    /\ tasks[t].pc = "cancelling"
    /\ tasks' = [tasks EXCEPT ![t].pc = "aborted"]
    /\ last' = [op |-> "request_cancelled", task |-> t]
    /\ UNCHANGED <<haltFrame, server, active_requests>>

\* A marked request task that is being polled runs to its end first: the
\* handler's registry update and send_response still happen.
MarkedTaskFinishes(t) ==
    /\ t \in DOMAIN tasks
    /\ tasks[t].pc = "cancelling"
    /\ tasks' = [tasks EXCEPT ![t].pc = "finished"]
    /\ last' = [op |-> "task_finishes", task |-> t]
    /\ UNCHANGED <<haltFrame, server, active_requests>>

\* tokio::task::yield_now().await is over and the function returns.
HaltReturns ==
    /\ server.pc = "yielding"
    /\ server' = [server EXCEPT !.pc = "returned"]
    /\ last' = [op |-> "halt_returns"]
    /\ UNCHANGED <<haltFrame, tasks, active_requests>>

InitHalt ==
    /\ secret = 0
    /\ ck_issue = NoCall
    /\ ck_check = NoCall
    /\ now = 0
    /\ mode = "Public"
    /\ cfg = [persistent |-> FALSE, pruning |-> FALSE]
    /\ keys = EmptyMap
    /\ whitelist = {}
    /\ torrents = EmptyMap
    /\ db_keys = EmptyMap
    /\ db_whitelist = {}
    /\ db_torrents = EmptyMap
    /\ udp_conn = NoCall
    /\ last = [op |-> "init"]
    /\ ann = [x \in InfoHashes \X PeerIds |-> NoAnn]
    /\ job = [started |-> FALSE]
    /\ lock = [writer |-> None, readers |-> {}]
    /\ tasks = << >>
    /\ active_requests = << >>
    /\ server = [pc |-> "serving", main |-> "running"]
    /\ registry = {}
    /\ shutdown = [pc |-> "none"]

NextHalt ==
    \/ \E finished_at_once \in BOOLEAN, oldest_finishes \in BOOLEAN :
            ServeRequest(finished_at_once, oldest_finishes)
    \/ \E t \in 1..MaxRequests : TaskFinishes(t)
    \/ HaltReceived
    \/ MainExits
    \/ MainCancelled
    \/ \E t \in 1..MaxRequests : RequestCancelled(t)
    \/ \E t \in 1..MaxRequests : MarkedTaskFinishes(t)
    \/ HaltReturns

SpecHalt == InitHalt /\ [][NextHalt]_vars

\* C21: after run_with_graceful_shutdown has returned, no request task
\* spawned by the listener is still running.
C21_NoTaskRunsAfterHalt ==
    server.pc = "returned" =>
        \A t \in DOMAIN tasks : tasks[t].pc \notin {"running", "cancelling"}

(***************************************************************************)
(* The listener service (servers/http/server.rs; servers/udp/server/       *)
(* states.rs has the same start, stop and poll): Server<Stopped>::start    *)
(* spawns the shutdown watcher (signals.rs graceful_shutdown) and the main *)
(* serving task into a JoinSet, sends its registration to the Registar and *)
(* returns Server<Running>; stop() sends Halted through the oneshot halt   *)
(* channel; polling Server<Running> joins the tasks and resolves to        *)
(* Server<Stopped>.                                                        *)
(*   server   : the controller; pc, halt_task (the Option of the sender),  *)
(*              holder (a sender taken out of halt_task), tasks (Active or *)
(*              Shutdown), set (the JoinSet), marked (tasks abort() was    *)
(*              called on), main (state of the serving task), launcher,    *)
(*              local_addr, and the counters starts, stops, sent.          *)
(*   shutdown : the watcher task; pc, halt (the oneshot channel), conns    *)
(*              (handle.connection_count()), timeout, elapsed, and the     *)
(*              number of calls made on the axum handle.                   *)
(*   registry : entries of the ServiceRegistry and the registrations sent  *)
(*              through a form but not yet inserted.                       *)
(***************************************************************************)
MaxStarts == 1
MaxStops == 2
MaxConns == 1
MaxTimeout == 1
MaxSleep == 2

BindAddrs == {"b1", "b2"}
TaskNames == {"main", "watcher"}
Terminal == {"finished", "panicked", "cancelled"}

serviceFrame == <<now, cookieVars, mode, cfg, keys, whitelist, torrents, db_keys,
                  db_whitelist, db_torrents, udp_conn, ann, job, lock, tasks,
                  active_requests>>

\* State of a task of the JoinSet, as the JoinSet sees it.
task_state(srv, sd, t) ==
    IF t = "main" THEN srv.main
    ELSE IF sd.pc = "done" THEN "finished"
    ELSE IF sd.pc \in {"panicked", "cancelled"} THEN sd.pc
    ELSE "running"

\* JoinSet::poll_join_next: None when the set is empty, else one of the tasks
\* that have ended (Pending, the empty set here, when none has).
poll_join_next(srv, sd) ==
    IF srv.set = {} THEN {None}
    ELSE {t \in srv.set : task_state(srv, sd, t) \in Terminal}

\* Tasks::make_shutdown (to_shutdown in the HTTP server): Active becomes
\* Shutdown with the same JoinSet; it panics when the tasks are in Shutdown.
make_shutdown(srv) ==
    IF srv.tasks = "Active"
    THEN [srv EXCEPT !.tasks = "Shutdown", !.made_shutdown = @ + 1]
    ELSE [srv EXCEPT !.pc = "Panicked"]

\* A poll whose Shutdown branch falls through to make_shutdown after a join.
poll_shutdown_falls_through(srv, joined, state) ==
    IF srv.tasks = "Active"
    THEN IF joined = None
         THEN [srv EXCEPT !.pc = "Panicked"]
         ELSE IF state \in {"panicked", "cancelled"}
         THEN [srv EXCEPT !.pc = "JoinError", !.set = srv.set \ {joined}]
         ELSE make_shutdown([srv EXCEPT !.set = srv.set \ {joined},
                                        !.marked = srv.set \ {joined}])
    ELSE IF joined = None
         THEN [srv EXCEPT !.pc = "Stopped"]
         ELSE make_shutdown([srv EXCEPT !.set = srv.set \ {joined}])

poll_resolves_after_first_join(srv, joined, state) ==
    IF state \in {"panicked", "cancelled"}
    THEN [srv EXCEPT !.pc = "JoinError", !.set = srv.set \ {joined}]
    ELSE [srv EXCEPT !.pc = "Stopped", !.set = srv.set \ {joined},
                     !.marked = srv.set \ {joined}]

poll_without_abort_all(srv, joined, state) ==
    IF srv.tasks = "Active"
    THEN IF state \in {"panicked", "cancelled"}
         THEN [srv EXCEPT !.pc = "JoinError", !.set = srv.set \ {joined}]
         ELSE [srv EXCEPT !.set = srv.set \ {joined}, !.tasks = "Shutdown"]
    ELSE IF joined = None
         THEN [srv EXCEPT !.pc = "Stopped"]
         ELSE [srv EXCEPT !.set = srv.set \ {joined}]

\* <Server<Running> as Future>::poll, given what poll_join_next returned
\* (joined, with the state the joined task ended in).
poll(srv, joined, state) ==
    IF srv.tasks = "Active"
    THEN IF joined = None
         THEN \* Ready(None) => panic!("it should have at least a single task")
              [srv EXCEPT !.pc = "Panicked"]
         ELSE IF state \in {"panicked", "cancelled"}
         THEN \* Ready(Some(Err(e))) => return Ready(Err(e))
              [srv EXCEPT !.pc = "JoinError", !.set = srv.set \ {joined}]
         ELSE \* Ready(Some(Ok(_))) => abort_all, make_shutdown, wake, Pending
              make_shutdown([srv EXCEPT !.set = srv.set \ {joined},
                                        !.marked = srv.set \ {joined}])
    ELSE IF joined = None
         THEN \* Ready(None) => Ready(Ok(Server::new(launcher.clone())))
              [srv EXCEPT !.pc = "Stopped"]
         ELSE \* Ready(Some(_)) => wake, Pending
              [srv EXCEPT !.set = srv.set \ {joined}]

stop_without_take(srv, rx_open) ==
    IF srv.halt_task = "None"
    THEN [server |-> srv, res |-> "AlreadyStopping", delivered |-> FALSE]
    ELSE IF rx_open
         THEN [server |-> [srv EXCEPT !.sent = srv.sent + 1],
               res |-> "Ok", delivered |-> TRUE]
         ELSE [server |-> srv, res |-> "FailedToSendStop", delivered |-> FALSE]

\* Server<Running>::stop: halt_task.take().ok_or(AlreadyStopping)?
\*                            .send(Halted::Normal).map_err(FailedToSendStop)
stop(srv, rx_open) ==
    IF srv.halt_task = "None"
    THEN [server |-> srv, res |-> "AlreadyStopping", delivered |-> FALSE]
    ELSE IF rx_open
         THEN [server |-> [srv EXCEPT !.halt_task = "None", !.sent = srv.sent + 1],
               res |-> "Ok", delivered |-> TRUE]
         ELSE [server |-> [srv EXCEPT !.halt_task = "None"],
               res |-> "FailedToSendStop", delivered |-> FALSE]

\* The receiving half of the halt channel is alive while the watcher waits
\* for its signal.
rx_halt_open(sd) == sd.pc = "waiting"

graceful_shutdown_loop_without_timeout(conns, elapsed, timeout) ==
    IF conns = 0 THEN "break" ELSE "sleep"

\* One round of the loop of graceful_shutdown (signals.rs 89-102).
graceful_shutdown_loop(conns, elapsed, timeout) ==
    IF conns = 0 THEN "break"
    ELSE IF elapsed > timeout THEN "break"
    ELSE "sleep"

\* Server<Stopped>::start(form); form_ok is whether the Registar's insert task
\* still holds the receiving half of the form.
Start(timeout, conns, form_ok) ==
    /\ server.pc = "Stopped"
    /\ server.starts < MaxStarts
    /\ IF form_ok
       THEN /\ server' = [server EXCEPT !.pc = "Running", !.halt_task = "Some",
                                        !.holder = "none", !.tasks = "Active",
                                        !.set = TaskNames, !.marked = {},
                                        !.main = "running",
                                        !.local_addr = server.launcher.bind_to,
                                        !.starts = server.starts + 1,
                                        !.stops = 0, !.sent = 0,
                                        !.made_shutdown = 0]
            /\ registry' = [registry EXCEPT !.pending = registry.pending \cup {server.launcher.bind_to}]
       ELSE \* Err / panic: the JoinSet is dropped, which aborts its tasks
            /\ server' = [server EXCEPT !.pc = "StartFailed", !.set = TaskNames,
                                        !.marked = TaskNames, !.main = "running",
                                        !.starts = server.starts + 1]
            /\ UNCHANGED registry
    /\ shutdown' = [pc |-> "waiting", halt |-> "empty", conns |-> conns,
                    timeout |-> timeout, elapsed |-> 0,
                    graceful_calls |-> 0, shutdown_calls |-> 0]
    /\ last' = [op |-> "start", ok |-> form_ok]
    /\ UNCHANGED serviceFrame

\* Registar::insert: the registration sent through the form is received and
\* inserted under the registry's mutex.
RegistarInsert(addr) ==
    /\ addr \in registry.pending
    /\ registry' = [entries |-> registry.entries \cup {addr},
                    pending |-> registry.pending \ {addr}]
    /\ last' = [op |-> "insert", addr |-> addr]
    /\ UNCHANGED <<serviceFrame, server, shutdown>>

Stop ==
    /\ server.pc = "Running"
    /\ server.stops < MaxStops
    /\ LET r == stop(server, rx_halt_open(shutdown)) IN
        /\ server' = [r.server EXCEPT !.stops = server.stops + 1]
        /\ shutdown' = IF r.delivered THEN [shutdown EXCEPT !.halt = "sent"] ELSE shutdown
        /\ last' = [op |-> "stop", res |-> r.res, had_sender |-> server.halt_task = "Some",
                    nth |-> server.stops + 1, sent_before |-> server.sent]
    /\ UNCHANGED <<serviceFrame, registry>>

\* bootstrap/jobs/udp_tracker.rs start_job: running.state.halt_task.take().
TakeHalt ==
    /\ server.pc = "Running"
    /\ server.halt_task = "Some"
    /\ server.stops = 0
    /\ server' = [server EXCEPT !.halt_task = "None", !.holder = "held"]
    /\ last' = [op |-> "take_halt"]
    /\ UNCHANGED <<serviceFrame, registry, shutdown>>

\* The owner of the sender that start_job returned sends Halted.
HolderSends ==
    /\ server.holder = "held"
    /\ IF rx_halt_open(shutdown)
       THEN /\ server' = [server EXCEPT !.holder = "used", !.sent = server.sent + 1]
            /\ shutdown' = [shutdown EXCEPT !.halt = "sent"]
       ELSE /\ server' = [server EXCEPT !.holder = "used"]
            /\ UNCHANGED shutdown
    /\ last' = [op |-> "holder_sends"]
    /\ UNCHANGED <<serviceFrame, registry>>

\* The owner of the sender drops it unused: the channel is closed.
HolderDrops ==
    /\ server.holder = "held"
    /\ server' = [server EXCEPT !.holder = "dropped"]
    /\ shutdown' = IF rx_halt_open(shutdown) THEN [shutdown EXCEPT !.halt = "closed"] ELSE shutdown
    /\ last' = [op |-> "holder_drops"]
    /\ UNCHANGED <<serviceFrame, registry>>

watcher_live == "watcher" \in server.set /\ server.pc \in {"Running", "StartFailed"}

\* shutdown_signal: rx_halt resolves with the Halted that was sent.
HaltDelivered ==
    /\ watcher_live
    /\ shutdown.pc = "waiting"
    /\ shutdown.halt = "sent"
    /\ "watcher" \notin server.marked
    /\ shutdown' = [shutdown EXCEPT !.pc = "signalled"]
    /\ last' = [op |-> "halt_delivered"]
    /\ UNCHANGED <<serviceFrame, registry, server>>

\* shutdown_signal: global_shutdown_signal() resolves (ctrl-c or terminate).
GlobalSignal ==
    /\ watcher_live
    /\ shutdown.pc = "waiting"
    /\ "watcher" \notin server.marked
    /\ shutdown' = [shutdown EXCEPT !.pc = "signalled"]
    /\ last' = [op |-> "global_signal"]
    /\ UNCHANGED <<serviceFrame, registry, server>>

\* shutdown_signal: rx_halt resolves with an error, the sender was dropped:
\* panic!("Failed to install stop signal").
WatcherPanics ==
    /\ watcher_live
    /\ shutdown.pc = "waiting"
    /\ shutdown.halt = "closed"
    /\ "watcher" \notin server.marked
    /\ shutdown' = [shutdown EXCEPT !.pc = "panicked"]
    /\ last' = [op |-> "watcher_panics"]
    /\ UNCHANGED <<serviceFrame, registry, server>>

\* graceful_shutdown lines 81-87: handle.graceful_shutdown(Some(timeout)),
\* now = Instant::now(), and the first look at the connection count; with no
\* connection the loop is skipped and handle.shutdown() is called.
GracefulRequested ==
    /\ watcher_live
    /\ shutdown.pc = "signalled"
    /\ shutdown' = IF shutdown.conns = 0
                   THEN [shutdown EXCEPT !.pc = "done", !.elapsed = 0,
                                         !.graceful_calls = shutdown.graceful_calls + 1,
                                         !.shutdown_calls = shutdown.shutdown_calls + 1]
                   ELSE [shutdown EXCEPT !.pc = "loop", !.elapsed = 0,
                                         !.graceful_calls = shutdown.graceful_calls + 1]
    /\ last' = [op |-> "graceful_requested", conns |-> shutdown.conns]
    /\ UNCHANGED <<serviceFrame, registry, server>>

\* graceful_shutdown lines 89-105: one round of the loop, up to the sleep or
\* through the break to handle.shutdown().
LoopIteration ==
    /\ watcher_live
    /\ shutdown.pc = "loop"
    /\ LET r == graceful_shutdown_loop(shutdown.conns, shutdown.elapsed, shutdown.timeout) IN
        /\ shutdown' = IF r = "break"
                       THEN [shutdown EXCEPT !.pc = "done",
                                             !.shutdown_calls = shutdown.shutdown_calls + 1]
                       ELSE [shutdown EXCEPT !.pc = "sleeping"]
        /\ last' = [op |-> "loop", conns |-> shutdown.conns, elapsed |-> shutdown.elapsed,
                    timeout |-> shutdown.timeout, slept |-> r = "sleep"]
    /\ UNCHANGED <<serviceFrame, registry, server>>

\* sleep(Duration::from_secs(1)) is over, d >= 1 seconds later (the elapsed
\* time is only compared with the timeout, so it is kept up to timeout + 1).
SleepReturns(d) ==
    /\ watcher_live
    /\ shutdown.pc = "sleeping"
    /\ "watcher" \notin server.marked
    /\ shutdown' = [shutdown EXCEPT !.pc = "loop",
                                    !.elapsed = Min(shutdown.elapsed + d, shutdown.timeout + 1)]
    /\ last' = [op |-> "sleep_returns"]
    /\ UNCHANGED <<serviceFrame, registry, server>>

\* The runtime schedules the watcher after abort_all marked it: the task is
\* cancelled at the await it was suspended in.
WatcherCancelled ==
    /\ watcher_live
    /\ shutdown.pc \in {"waiting", "sleeping"}
    /\ "watcher" \in server.marked
    /\ shutdown' = [shutdown EXCEPT !.pc = "cancelled"]
    /\ last' = [op |-> "watcher_cancelled"]
    /\ UNCHANGED <<serviceFrame, registry, server>>

\* A client opens a connection; the server accepts none once graceful
\* shutdown was requested.
ConnectionOpens ==
    /\ server.pc = "Running"
    /\ server.main = "running"
    /\ shutdown.graceful_calls = 0
    /\ shutdown.conns < MaxConns
    /\ shutdown' = [shutdown EXCEPT !.conns = shutdown.conns + 1]
    /\ last' = [op |-> "connection_opens"]
    /\ UNCHANGED <<serviceFrame, registry, server>>

ConnectionCloses ==
    /\ server.pc = "Running"
    /\ shutdown.conns > 0
    /\ shutdown' = [shutdown EXCEPT !.conns = shutdown.conns - 1]
    /\ last' = [op |-> "connection_closes"]
    /\ UNCHANGED <<serviceFrame, registry, server>>

\* The serving task ends by itself: serve() returned, after the handle's
\* shutdown or unexpectedly.
MainTaskFinishes ==
    /\ server.pc \in {"Running", "StartFailed"}
    /\ "main" \in server.set
    /\ server.main = "running"
    /\ server' = [server EXCEPT !.main = "finished"]
    /\ last' = [op |-> "main_finishes"]
    /\ UNCHANGED <<serviceFrame, registry, shutdown>>

\* The runtime schedules the serving task after abort_all marked it.
MainTaskCancelled ==
    /\ server.pc \in {"Running", "StartFailed"}
    /\ "main" \in server.set
    /\ server.main = "running"
    /\ "main" \in server.marked
    /\ server' = [server EXCEPT !.main = "cancelled"]
    /\ last' = [op |-> "main_cancelled"]
    /\ UNCHANGED <<serviceFrame, registry, shutdown>>

\* The owner awaits Server<Running>: one poll that does not return Pending
\* without a change.
Poll ==
    /\ server.pc = "Running"
    /\ \E joined \in poll_join_next(server, shutdown) :
        /\ server' = poll(server, joined,
                          IF joined = None THEN None ELSE task_state(server, shutdown, joined))
        /\ last' = [op |-> "poll", joined |-> joined, tasks |-> server.tasks]
    /\ UNCHANGED <<serviceFrame, registry, shutdown>>

InitService ==
    /\ secret = 0
    /\ ck_issue = NoCall
    /\ ck_check = NoCall
    /\ now = 0
    /\ mode = "Public"
    /\ cfg = [persistent |-> FALSE, pruning |-> FALSE]
    /\ keys = EmptyMap
    /\ whitelist = {}
    /\ torrents = EmptyMap
    /\ db_keys = EmptyMap
    /\ db_whitelist = {}
    /\ db_torrents = EmptyMap
    /\ udp_conn = NoCall
    /\ last = [op |-> "init"]
    /\ ann = [x \in InfoHashes \X PeerIds |-> NoAnn]
    /\ job = [started |-> FALSE]
    /\ lock = [writer |-> None, readers |-> {}]
    /\ tasks = << >>
    /\ active_requests = << >>
    /\ \E b \in BindAddrs :
        server = [pc |-> "Stopped", halt_task |-> "None", holder |-> "none",
                  tasks |-> "Active", set |-> {}, marked |-> {}, main |-> "finished",
                  launcher |-> [bind_to |-> b], local_addr |-> None,
                  starts |-> 0, stops |-> 0, sent |-> 0, made_shutdown |-> 0]
    /\ registry = [entries |-> {}, pending |-> {}]
    /\ shutdown = [pc |-> "none", halt |-> "empty", conns |-> 0, timeout |-> 0,
                   elapsed |-> 0, graceful_calls |-> 0, shutdown_calls |-> 0]

NextService ==
    \/ \E timeout \in 0..MaxTimeout, conns \in 0..MaxConns, form_ok \in BOOLEAN :
            Start(timeout, conns, form_ok)
    \/ \E addr \in BindAddrs : RegistarInsert(addr)
    \/ Stop
    \/ TakeHalt
    \/ HolderSends
    \/ HolderDrops
    \/ HaltDelivered
    \/ GlobalSignal
    \/ WatcherPanics
    \/ GracefulRequested
    \/ LoopIteration
    \/ \E d \in 1..MaxSleep : SleepReturns(d)
    \/ WatcherCancelled
    \/ ConnectionOpens
    \/ ConnectionCloses
    \/ MainTaskFinishes
    \/ MainTaskCancelled
    \/ Poll

SpecService == InitService /\ [][NextService]_vars

\* The runtime is fair to every task that can run: a delivered Halted is
\* received, the watcher's straight-line code and its sleep go on, a marked
\* task is cancelled, and the owner that awaits the server is polled.
SpecServiceFair ==
    /\ SpecService
    /\ WF_vars(HaltDelivered)
    /\ WF_vars(GracefulRequested)
    /\ WF_vars(LoopIteration)
    /\ WF_vars(\E d \in 1..MaxSleep : SleepReturns(d))
    /\ WF_vars(WatcherCancelled)
    /\ WF_vars(MainTaskCancelled)
    /\ WF_vars(Poll)

\* C22: the Server<Running> future resolves to Ok(Server<Stopped>) only with
\* an empty task set: the main task and the shutdown watcher have both ended
\* (finished, panicked or cancelled) and have been joined.
C22_StoppedOnlyAfterAllJoined ==
    (server.pc = "Stopped" /\ server.starts > 0) =>
        /\ server.set = {}
        /\ \A t \in TaskNames : task_state(server, shutdown, t) \in Terminal

C22_Witness ==
    /\ server.pc = "Stopped"
    /\ server.starts > 0
    /\ last.op = "poll"
    /\ server.main = "cancelled"
    /\ shutdown.pc = "done"

\* C23: once stop() has returned Ok on a running listener, under fair
\* scheduling the Server<Running> future eventually resolves to
\* Ok(Server<Stopped>) and the stopped server carries the launcher (bind
\* address) the running one had.
C23_StopLeadsToStopped ==
    \A b \in BindAddrs :
        (last.op = "stop" /\ last.res = "Ok" /\ server.launcher.bind_to = b)
            ~> (server.pc = "Stopped" /\ server.starts > 0 /\ server.launcher.bind_to = b)

C23_Witness ==
    /\ server.pc = "Stopped"
    /\ server.starts > 0
    /\ server.sent = 1
    /\ server.stops > 0
    /\ shutdown.halt = "sent"
    /\ shutdown.shutdown_calls = 1

\* C24: the halt sender is consumed by its first use: at most one Halted is
\* sent per start; a stop() that finds the sender sends (or fails to send)
\* and leaves no sender behind; every later stop(), and a stop() after the
\* sender was taken out of halt_task, returns AlreadyStopping and sends
\* nothing.
C24_HaltSenderUsedOnce ==
    /\ server.sent <= 1
    /\ last.op = "stop" =>
        /\ server.halt_task = "None"
        /\ last.had_sender =>
            /\ last.res \in {"Ok", "FailedToSendStop"}
            /\ last.nth = 1
            /\ last.res = "Ok" <=> server.sent = last.sent_before + 1
        /\ ~last.had_sender =>
            /\ last.res = "AlreadyStopping"
            /\ server.sent = last.sent_before
        /\ last.nth > 1 => last.res = "AlreadyStopping"

C24_Witness ==
    /\ last.op = "stop"
    /\ last.nth = 2
    /\ last.res = "AlreadyStopping"
    /\ server.sent = 1
    /\ server.holder = "none"

\* C25: whenever the listener is Running, its registration is in the
\* health-check registry.
C25_RunningImpliesRegistered ==
    server.pc = "Running" => server.local_addr \in registry.entries

\* C26: once a running listener that was stopped (stop() delivered Halted)
\* has reached Stopped, the registry no longer holds its registration.
C26_StoppedImpliesDeregistered ==
    (server.pc = "Stopped" /\ server.starts > 0 /\ server.stops > 0 /\ server.sent = 1) =>
        server.local_addr \notin registry.entries

\* C27: graceful_shutdown does nothing to the server before its signal; once
\* signalled it requests graceful shutdown once, sleeps only while the
\* connection count is non-zero and the elapsed time does not exceed the
\* grace period, leaves the loop otherwise, calls handle.shutdown() exactly
\* once on the way out, and always ends once signalled.
C27_Safety ==
    /\ shutdown.pc \in {"none", "waiting", "signalled", "panicked"} =>
            shutdown.graceful_calls = 0 /\ shutdown.shutdown_calls = 0
    /\ shutdown.pc \in {"loop", "sleeping", "done"} => shutdown.graceful_calls = 1
    /\ shutdown.graceful_calls <= 1
    /\ shutdown.shutdown_calls = (IF shutdown.pc = "done" THEN 1 ELSE 0)
    /\ last.op = "graceful_requested" => (shutdown.pc = "done" <=> last.conns = 0)
    /\ last.op = "loop" =>
        /\ last.slept <=> (last.conns # 0 /\ last.elapsed <= last.timeout)
        /\ shutdown.pc = (IF last.slept THEN "sleeping" ELSE "done")

C27_GracefulShutdownTerminates ==
    /\ []C27_Safety
    /\ (shutdown.pc = "signalled") ~> (shutdown.pc \in {"done", "cancelled"})

C27_Witness ==
    /\ shutdown.pc = "done"
    /\ last.op = "loop"
    /\ last.conns > 0
    /\ last.elapsed > last.timeout
    /\ shutdown.shutdown_calls = 1
    /\ shutdown.graceful_calls = 1

(***************************************************************************)
(* The time-extent connection cookies (udp/connection_cookie.rs): three    *)
(* implementations of make_connection_cookie / check_connection_cookie     *)
(* over COOKIE_LIFETIME, 60 extents of 2 seconds.  The clock is the Unix   *)
(* time in seconds; the witness and encrypted cookies carry their expiry   *)
(* as the 4 bytes of an f32.  DefaultHasher is taken as collision free.    *)
(***************************************************************************)
MaxCookieOffset == 123   \* a cookie is checked 0..MaxCookieOffset seconds after it was made

COOKIE_LIFETIME == [increment |-> 2, amount |-> 60]

CookieKinds == {"hashed", "witness", "encrypted"}

\* Clock readings at which a cookie is made: the stopped clock of the tests
\* and Unix times of the running tracker.
MakeReadings == {0, 1, 1700000000, 1700000001}

CookieAddrs == {a \in SocketAddrs : a.ver = 4 /\ a.ip = 0}

\* TimeExtent::total: increment * amount
time_extent_total(extent) == extent.increment * extent.amount

\* DefaultTimeExtentMaker::now(increment): the number of whole increments
\* since the Unix epoch.
time_extent_now(increment, clock) == clock \div increment

\* The distance between neighbouring f32 values at x (24 bits of mantissa).
RECURSIVE f32_ulp(_)
f32_ulp(x) == IF x < 16777216 THEN 1 ELSE 2 * f32_ulp(x \div 2)

\* Duration::as_secs_f32 of a whole number of seconds: the nearest f32, ties
\* to the even mantissa.
as_secs_f32(secs) ==
    LET u == f32_ulp(secs)
        q == secs \div u
        r == secs % u
    IN  IF 2 * r < u THEN q * u
        ELSE IF 2 * r > u THEN (q + 1) * u
        ELSE IF q % 2 = 0 THEN q * u
        ELSE (q + 1) * u

\* HashedConnectionCookie::get_last_time_extent
get_last_time_extent(clock) ==
    time_extent_now(COOKIE_LIFETIME.increment, clock) + COOKIE_LIFETIME.amount

\* HashedConnectionCookie::build
hashed_build(seed, remote_address, time_extent) ==
    <<"hash", remote_address, time_extent, seed>>

\* WitnessConnectionCookie::build: 4 bytes of witness, 4 bytes of expiry
witness_build(seed, remote_address, expiry) ==
    [witness |-> <<"hash", remote_address, seed, expiry>>, expiry |-> expiry]

\* DefaultBlockCipher encrypt_block / decrypt_block: a keyed permutation of
\* the 8-byte block and its inverse.
encrypt_block(key, block) == <<"cipher", key, block>>

decrypt_block(key, block) == block[3]

\* EncryptedConnectionCookie::get_remote_hash
get_remote_hash(remote_address) == <<"hash", remote_address>>

\* EncryptedConnectionCookie::build
encrypted_build(key, remote_hash, expiry) ==
    encrypt_block(key, [remote_hash |-> remote_hash, expiry |-> expiry])

make_connection_cookie(kind, seed, remote_address, clock) ==
    IF kind = "hashed"
    THEN hashed_build(seed, remote_address, get_last_time_extent(clock))
    ELSE LET expiry_time == as_secs_f32(clock + time_extent_total(COOKIE_LIFETIME)) IN
         IF kind = "witness"
         THEN witness_build(seed, remote_address, expiry_time)
         ELSE encrypted_build(seed, get_remote_hash(remote_address), expiry_time)

check_connection_cookie(kind, seed, remote_address, connection_cookie, clock) ==
    IF kind = "hashed"
    THEN IF \E offset \in 0..COOKIE_LIFETIME.amount :
                connection_cookie = hashed_build(seed, remote_address,
                                                 get_last_time_extent(clock) - offset)
         THEN "Ok"
         ELSE "InvalidConnectionId"
    ELSE IF kind = "witness"
    THEN LET expiry_time == connection_cookie.expiry
             time_clock == as_secs_f32(clock)
         IN  IF expiry_time < time_clock THEN "ExpiredConnectionId"
             ELSE IF connection_cookie # witness_build(seed, remote_address, expiry_time)
             THEN "BadWitnessConnectionId"
             ELSE "Ok"
    ELSE LET cookie == decrypt_block(seed, connection_cookie)
             expiry_time == cookie.expiry
             time_clock == as_secs_f32(clock)
             time_clock_expiry == as_secs_f32(clock + time_extent_total(COOKIE_LIFETIME))
         IN  IF expiry_time < time_clock THEN "ExpiredConnectionId"
             ELSE IF expiry_time > time_clock_expiry THEN "BadWitnessConnectionId"
             ELSE IF cookie.remote_hash # get_remote_hash(remote_address)
             THEN "BadWitnessConnectionId"
             ELSE "Ok"

cookieFrame == <<auxVars, now, secret, mode, cfg, keys, whitelist, torrents, db_keys,
                 db_whitelist, db_torrents, udp_conn, last, ann>>

MakeConnectionCookie(kind, a, t) ==
    /\ ~ck_issue.called
    /\ ck_issue' = [called |-> TRUE, kind |-> kind, addr |-> a, at |-> t,
                    cookie |-> make_connection_cookie(kind, secret, a, t)]
    /\ UNCHANGED <<cookieFrame, ck_check>>

\* check_connection_cookie, d seconds after the cookie was made
CheckConnectionCookie(a, d) ==
    /\ ck_issue.called
    /\ ~ck_check.called
    /\ ck_check' = [called |-> TRUE, addr |-> a, at |-> ck_issue.at + d, after |-> d,
                    res |-> check_connection_cookie(ck_issue.kind, secret, a,
                                                    ck_issue.cookie, ck_issue.at + d)]
    /\ UNCHANGED <<cookieFrame, ck_issue>>

InitExtentCookie ==
    /\ secret \in 0..MaxSecret
    /\ ck_issue = NoCall
    /\ ck_check = NoCall
    /\ RestInit

NextExtentCookie ==
    \/ \E kind \in CookieKinds, a \in CookieAddrs, t \in MakeReadings :
            MakeConnectionCookie(kind, a, t)
    \/ \E a \in CookieAddrs, d \in 0..MaxCookieOffset : CheckConnectionCookie(a, d)

SpecExtentCookie == InitExtentCookie /\ [][NextExtentCookie]_vars

\* C28: for each of the three implementations a cookie made for an address
\* at clock reading t is accepted for that address at t, at t + 2 and at
\* t + 120, and is rejected at t + 122.
C28_ValidForLifetimeExtents ==
    (ck_check.called /\ ck_check.addr = ck_issue.addr) =>
        /\ ck_check.after \in {0, 2, 120} => ck_check.res = "Ok"
        /\ ck_check.after = 122 => ck_check.res # "Ok"

(***************************************************************************)
(* The client-image connection cookies (udp/connection/connection_cookie.rs)*)
(* HashedCookie, WitnessCookie and EncryptedCookie: new(client_image,      *)
(* lifetime) and check(client_image, lifetime, encoded_id, after_now).     *)
(* The clock is a Duration since the Unix epoch; the model counts it in    *)
(* ticks, TicksPerSec to the second, so that it has readings between the   *)
(* whole seconds.  DefaultHasher is taken as collision free.               *)
(***************************************************************************)
TicksPerSec == 2         \* clock resolution of the model
MaxImageLifetime == 2    \* lifetimes of 1..MaxImageLifetime seconds
MaxNewTick == 4          \* a cookie is created at tick 0..MaxNewTick
MaxCheckDelay == 9       \* and checked 0..MaxCheckDelay ticks later

\* ClientImage::value(): 8 bytes, here the first four and the last four.
ClientImages == {<<0, 0>>, <<0, 1>>, <<1, 0>>}

ImageCookieKinds == {"HashedCookie", "WitnessCookie", "EncryptedCookie"}

\* Duration::new(secs, 0)
Duration_secs(secs) == secs * TicksPerSec

\* Clock::after(period): the clock reading plus the period
Time_after(clock, period) == clock + period

\* Div for UnixClock: as_nanos() / as_nanos()
Time_div(time, period) == time \div period

\* TryInto<u32> for UnixClock: as_secs()
Time_try_into_u32(time) == time \div TicksPerSec

\* HashedCookie::new_int
HashedCookie_new_int(clock, client_image, lifetime, past, after_now) ==
    LET now_maybe_next == IF past THEN Time_after(clock, after_now)
                          ELSE Time_after(clock, lifetime + after_now)
        life_period == Time_div(now_maybe_next, lifetime)
    IN  <<"hash", life_period, client_image>>

HashedCookie_check_without_past_window(clock, client_image, lifetime, encoded_id, after_now) ==
    IF HashedCookie_new_int(clock, client_image, lifetime, FALSE, after_now) = encoded_id
    THEN "Ok"
    ELSE "Expired connection id"

\* <HashedCookie as ConnectionCookie>::check
HashedCookie_check(clock, client_image, lifetime, encoded_id, after_now) ==
    IF HashedCookie_new_int(clock, client_image, lifetime, FALSE, after_now) = encoded_id
    THEN "Ok"
    ELSE IF HashedCookie_new_int(clock, client_image, lifetime, TRUE, after_now) = encoded_id
    THEN "Ok"
    ELSE "Expired connection id"

WitnessCookie_check_expiry_strict(clock, client_image, lifetime, encoded_id, after_now) ==
    LET expiry_u32 == encoded_id.expiry
        now_u32 == Time_try_into_u32(Time_after(clock, after_now))
    IN  IF expiry_u32 < now_u32 THEN "Expired connection id"
        ELSE IF <<"hash", expiry_u32, client_image>> # encoded_id.witness
        THEN "Bad Witness in Connection Id"
        ELSE "Ok"

\* <WitnessCookie as ConnectionCookie>::check
WitnessCookie_check(clock, client_image, lifetime, encoded_id, after_now) ==
    LET expiry_u32 == encoded_id.expiry
        now_u32 == Time_try_into_u32(Time_after(clock, after_now))
    IN  IF expiry_u32 <= now_u32 THEN "Expired connection id"
        ELSE IF <<"hash", expiry_u32, client_image>> # encoded_id.witness
        THEN "Bad Witness in Connection Id"
        ELSE "Ok"

\* <EncryptedCookie as ConnectionCookie>::check
EncryptedCookie_check(clock, client_image, lifetime, encoded_id, after_now) ==
    LET block == decrypt_block("DEFAULT_KEY", encoded_id)
        nowt == Time_after(clock, after_now)
    IN  IF block.expiry <= Time_try_into_u32(nowt) THEN "Expired connection id"
        ELSE IF block.image # client_image[1]
        THEN "Bad Witness in Connection Id"
        ELSE "Ok"

\* ConnectionCookie::new for the three cookies
Cookie_new(kind, clock, client_image, lifetime) ==
    IF kind = "HashedCookie"
    THEN HashedCookie_new_int(clock, client_image, lifetime, FALSE, 0)
    ELSE LET expiry_u32 == Time_try_into_u32(Time_after(clock, lifetime)) IN
         IF kind = "WitnessCookie"
         THEN [witness |-> <<"hash", expiry_u32, client_image>>, expiry |-> expiry_u32]
         ELSE encrypt_block("DEFAULT_KEY", [image |-> client_image[1], expiry |-> expiry_u32])

\* ConnectionCookie::check for the three cookies
Cookie_check(kind, clock, client_image, lifetime, encoded_id, after_now) ==
    IF kind = "HashedCookie"
    THEN HashedCookie_check(clock, client_image, lifetime, encoded_id, after_now)
    ELSE IF kind = "WitnessCookie"
    THEN WitnessCookie_check(clock, client_image, lifetime, encoded_id, after_now)
    ELSE EncryptedCookie_check(clock, client_image, lifetime, encoded_id, after_now)

CookieNew(kind, client_image, lifetime, t) ==
    /\ ~ck_issue.called
    /\ ck_issue' = [called |-> TRUE, kind |-> kind, image |-> client_image,
                    lifetime |-> lifetime, at |-> t,
                    value |-> Cookie_new(kind, t, client_image, lifetime)]
    /\ UNCHANGED <<cookieFrame, ck_check>>

\* check with the clock d ticks after the cookie was created; the tests move
\* the reading with after_now, the running tracker with the clock itself.
CookieCheck(client_image, d, by_after_now) ==
    /\ ck_issue.called
    /\ ~ck_check.called
    /\ ck_check' = [called |-> TRUE, image |-> client_image, at |-> ck_issue.at + d,
                    res |-> IF by_after_now
                            THEN Cookie_check(ck_issue.kind, ck_issue.at, client_image,
                                              ck_issue.lifetime, ck_issue.value, d)
                            ELSE Cookie_check(ck_issue.kind, ck_issue.at + d, client_image,
                                              ck_issue.lifetime, ck_issue.value, 0)]
    /\ UNCHANGED <<cookieFrame, ck_issue>>

InitImageCookie ==
    /\ secret = 0
    /\ ck_issue = NoCall
    /\ ck_check = NoCall
    /\ RestInit

NextImageCookie ==
    \/ \E kind \in ImageCookieKinds, client_image \in ClientImages,
          l \in 1..MaxImageLifetime, t \in 0..MaxNewTick :
            CookieNew(kind, client_image, Duration_secs(l), t)
    \/ \E client_image \in ClientImages, d \in 0..MaxCheckDelay, by_after_now \in BOOLEAN :
            CookieCheck(client_image, d, by_after_now)

SpecImageCookie == InitImageCookie /\ [][NextImageCookie]_vars

CookieChecked(kind) ==
    /\ ck_check.called
    /\ ck_issue.kind = kind
    /\ ck_check.image = ck_issue.image

\* C29: a HashedCookie created in lifetime window w is accepted in window w
\* and in window w + 1 and in no other window; so it is accepted up to one
\* full lifetime after it was created and rejected from two lifetimes on.
C29_HashedValidInTwoWindows ==
    CookieChecked("HashedCookie") =>
        LET w == ck_issue.at \div ck_issue.lifetime
            wc == ck_check.at \div ck_issue.lifetime
        IN  /\ ck_check.res = "Ok" <=> wc \in {w, w + 1}
            /\ ck_check.at - ck_issue.at <= ck_issue.lifetime => ck_check.res = "Ok"
            /\ ck_check.at - ck_issue.at >= 2 * ck_issue.lifetime => ck_check.res # "Ok"

C29_Witness ==
    /\ CookieChecked("HashedCookie")
    /\ ck_check.at \div ck_issue.lifetime = ck_issue.at \div ck_issue.lifetime + 1
    /\ ck_check.at - ck_issue.at > ck_issue.lifetime
    /\ ck_check.res = "Ok"

\* C30 as stated: a WitnessCookie or EncryptedCookie created at instant t
\* with lifetime L is accepted at every instant t' with t <= t' < t + L and
\* rejected at every t' >= t + L.
C30_ValidUntilExpiryInstant ==
    (CookieChecked("WitnessCookie") \/ CookieChecked("EncryptedCookie")) =>
        /\ ck_check.at < ck_issue.at + ck_issue.lifetime => ck_check.res = "Ok"
        /\ ck_check.at >= ck_issue.at + ck_issue.lifetime => ck_check.res # "Ok"

\* C30 amended: the cookie carries the whole second in which t + L falls and
\* is accepted exactly while the clock's whole second is below it; so it is
\* accepted whenever t' + 1 s <= t + L and rejected whenever t' >= t + L.
C30_ValidUntilExpirySecond ==
    (CookieChecked("WitnessCookie") \/ CookieChecked("EncryptedCookie")) =>
        /\ ck_check.res = "Ok" <=>
                ck_check.at \div TicksPerSec
                    < (ck_issue.at + ck_issue.lifetime) \div TicksPerSec
        /\ ck_check.at + TicksPerSec <= ck_issue.at + ck_issue.lifetime => ck_check.res = "Ok"
        /\ ck_check.at >= ck_issue.at + ck_issue.lifetime => ck_check.res # "Ok"

\* a check less than L after the creation that is rejected as expired
C30_Witness ==
    /\ CookieChecked("WitnessCookie")
    /\ ck_check.at < ck_issue.at + ck_issue.lifetime
    /\ ck_check.res = "Expired connection id"

(***************************************************************************)
(* C31: what a client learns from a rejected connection id.  The handler   *)
(* turns the verifier's error into the Error response that is sent back.   *)
(***************************************************************************)

\* The transaction ids a request carries.
TransactionIds == {1, 2}

\* How far a presented connection id is from the one that was issued.
MaxTamper == 2

\* The instants a request with a connection id arrives at.
ReplyInstants == {0, LIFETIME, LIFETIME + 1, LIFETIME + 5}

\* A handler that sends the verifier's own error text to the client.
handle_error_with_cause(e, transaction_id) ==
    [action |-> "Error", transaction_id |-> transaction_id, message |-> e]

\* handle_error: every failed connection id check is reported as
\* ServerError::InvalidConnectionId, whose text is "invalid connection id".
handle_error(e, transaction_id) ==
    [action |-> "Error", transaction_id |-> transaction_id,
     message |-> "invalid connection id"]

\* handle_packet for a request that carries a connection id: the id is
\* verified for the sender, and a failure becomes the Error response.
handle_request(key, connection_id, from, transaction_id, current_timestamp) ==
    LET res == verify_connection_id(key, connection_id, from, current_timestamp)
    IN  IF res = "Ok"
        THEN [action |-> "Accepted", transaction_id |-> transaction_id, message |-> ""]
        ELSE handle_error(res, transaction_id)

\* One request is handled; the previous exchange is kept in last.
HandleRequest(from, t, tamper, transaction_id) ==
    /\ ck_issue.called
    /\ LET presented == (ck_issue.id + tamper) % BlockSpace
       IN  ck_check' = [called |-> TRUE, addr |-> from, at |-> t,
                        transaction_id |-> transaction_id,
                        presented |-> presented,
                        res |-> verify_connection_id(secret, presented, from, t),
                        reply |-> handle_request(secret, presented, from,
                                                 transaction_id, t)]
    /\ last' = IF ck_check.called
                 THEN [op |-> "handle_request", prev |-> ck_check]
                 ELSE last
    /\ UNCHANGED <<auxVars, now, secret, ck_issue, mode, cfg, keys, whitelist, torrents,
                   db_keys, db_whitelist, db_torrents, udp_conn, ann>>

IssueForReply(a, t) ==
    /\ ~ck_issue.called
    /\ ck_issue' = [called |-> TRUE, addr |-> a, at |-> t,
                    id |-> new_connection_id(secret, a, t)]
    /\ UNCHANGED <<auxVars, now, secret, ck_check, mode, cfg, keys, whitelist, torrents,
                   db_keys, db_whitelist, db_torrents, udp_conn, last, ann>>

NextReply ==
    \/ \E a \in UdpAddrs : IssueForReply(a, 0)
    \/ \E from \in UdpAddrs, t \in ReplyInstants, tamper \in 0..MaxTamper,
          transaction_id \in TransactionIds :
            HandleRequest(from, t, tamper, transaction_id)

SpecReply == InitCookie /\ [][NextReply]_vars

\* Two exchanges that were both rejected.
BothRejected ==
    /\ ck_check.called
    /\ last.op = "handle_request"
    /\ ck_check.res # "Ok"
    /\ last.prev.res # "Ok"

ServiceIds == {"s1", "s2", "s3"}

ServiceProtocols == {"UDP", "HTTP", "TLS", "API"}

\* The order in which setup starts the blocks.
SetupBlocks == <<"UDP", "HTTP", "TLS", "API">>

\* The configurations: every service has a protocol and an enabled flag.
ServicesConfigs == [ServiceIds -> [service : ServiceProtocols, enabled : BOOLEAN]]

\* The services of one protocol that pass the enabled filter of setup.
enabled_services(services, protocol) ==
    {id \in ServiceIds : services[id].enabled /\ services[id].service = protocol}

setupFrame == <<now, cookieVars, cfg, torrents, db_keys, db_whitelist, db_torrents,
                udp_conn, ann, lock, tasks, active_requests, svcVars>>

\* A start-up that starts the UDP block whatever the mode.
start_udp_block_unguarded(m, st, id) ==
    [st EXCEPT !.jobs = @ \cup {[kind |-> "UDP", id |-> id]},
               !.pending = [@ EXCEPT !["UDP"] = @ \ {id}]]

\* One iteration of "Start the UDP blocks": a private tracker only warns.
start_udp_block(m, st, id) ==
    IF is_private(m)
    THEN [st EXCEPT !.warned = @ \cup {id},
                    !.pending = [@ EXCEPT !["UDP"] = @ \ {id}]]
    ELSE [st EXCEPT !.jobs = @ \cup {[kind |-> "UDP", id |-> id]},
                    !.pending = [@ EXCEPT !["UDP"] = @ \ {id}]]

\* One iteration of the HTTP, TLS or API block.
start_block(st, protocol, id) ==
    [st EXCEPT !.jobs = @ \cup {[kind |-> protocol, id |-> id]},
               !.pending = [@ EXCEPT ![protocol] = @ \ {id}]]

\* The block setup is in: the first one that still has a service to start.
current_block(st) ==
    IF \A i \in 1..Len(SetupBlocks) : st.pending[SetupBlocks[i]] = {}
    THEN None
    ELSE SetupBlocks[CHOOSE i \in 1..Len(SetupBlocks) :
                        /\ st.pending[SetupBlocks[i]] # {}
                        /\ \A j \in 1..(i - 1) : st.pending[SetupBlocks[j]] = {}]

\* "Load peer keys": a store failure makes expect panic.
SetupLoadKeys(db_ok) ==
    /\ job.pc = "load_keys"
    /\ keys' = IF is_private(mode) /\ db_ok THEN db_keys ELSE keys
    /\ job' = [job EXCEPT !.pc = IF is_private(mode) /\ ~db_ok
                                 THEN "panicked" ELSE "load_whitelist"]
    /\ last' = [op |-> "setup_load_keys"]
    /\ UNCHANGED <<setupFrame, mode, whitelist>>

\* "Load whitelisted torrents", then the services are collected by protocol.
SetupLoadWhitelist(db_ok) ==
    /\ job.pc = "load_whitelist"
    /\ whitelist' = IF is_whitelisted(mode) /\ db_ok THEN db_whitelist ELSE whitelist
    /\ job' = IF is_whitelisted(mode) /\ ~db_ok
              THEN [job EXCEPT !.pc = "panicked"]
              ELSE [job EXCEPT !.pc = "starting",
                               !.pending = [p \in ServiceProtocols |->
                                               enabled_services(job.services, p)]]
    /\ last' = [op |-> "setup_load_whitelist"]
    /\ UNCHANGED <<setupFrame, mode, keys>>

\* One iteration of one of the four start loops.
SetupStartJob(id) ==
    /\ job.pc = "starting"
    /\ current_block(job) # None
    /\ id \in job.pending[current_block(job)]
    /\ job' = IF current_block(job) = "UDP"
              THEN start_udp_block(mode, job, id)
              ELSE start_block(job, current_block(job), id)
    /\ last' = [op |-> "setup_start_job", id |-> id]
    /\ UNCHANGED <<setupFrame, mode, keys, whitelist>>

\* The loops are over: the cleanup job is started when it has an interval,
\* and setup returns the jobs.
SetupReturns ==
    /\ job.pc = "starting"
    /\ current_block(job) = None
    /\ job' = [job EXCEPT !.pc = "done",
                          !.jobs = IF job.cleanup_interval > 0
                                   THEN @ \cup {[kind |-> "cleanup", id |-> "cleanup"]}
                                   ELSE @]
    /\ last' = [op |-> "setup_returns"]
    /\ UNCHANGED <<setupFrame, mode, keys, whitelist>>

InitSetup ==
    /\ secret = 0
    /\ ck_issue = NoCall
    /\ ck_check = NoCall
    /\ now = 0
    /\ mode \in Modes
    /\ cfg = [persistent |-> FALSE, pruning |-> FALSE]
    /\ keys = EmptyMap
    /\ whitelist = {}
    /\ torrents = EmptyMap
    /\ db_keys = EmptyMap
    /\ db_whitelist = {"h1"}
    /\ db_torrents = EmptyMap
    /\ udp_conn = NoCall
    /\ last = [op |-> "init"]
    /\ ann = [x \in InfoHashes \X PeerIds |-> NoAnn]
    /\ \E services \in ServicesConfigs, interval \in 0..1 :
        job = [pc |-> "load_keys", services |-> services,
               cleanup_interval |-> interval,
               pending |-> [p \in ServiceProtocols |-> {}],
               jobs |-> {}, warned |-> {}]
    /\ lock = [writer |-> None, readers |-> {}]
    /\ tasks = << >>
    /\ active_requests = << >>
    /\ server = [pc |-> "Stopped"]
    /\ registry = [entries |-> {}, pending |-> {}]
    /\ shutdown = [pc |-> "none"]

NextSetup ==
    \/ \E db_ok \in BOOLEAN : SetupLoadKeys(db_ok)
    \/ \E db_ok \in BOOLEAN : SetupLoadWhitelist(db_ok)
    \/ \E id \in ServiceIds : SetupStartJob(id)
    \/ SetupReturns

SpecSetup == InitSetup /\ [][NextSetup]_vars

\* The services for which a job of the given kind was started.
jobs_of(kind) == {j.id : j \in {x \in job.jobs : x.kind = kind}}

HaltingServices == {"s1", "s2"}

\* How often one Halting future is polled at most.
MaxHaltingPolls == 3

haltingFrame == <<now, cookieVars, mode, cfg, keys, whitelist, torrents, db_keys,
                  db_whitelist, db_torrents, udp_conn, ann, job, lock, tasks,
                  active_requests, shutdown>>

\* Form::deregister: registry.deregister(key) decides between a future that
\* is ready at once and the error FailedToDeregister.
Form_deregister(entries, key) ==
    IF key \in entries
    THEN [res |-> "Ok", fut |-> "ready", entries |-> entries \ {key}]
    ELSE [res |-> "FailedToDeregister", fut |-> "None", entries |-> entries]

\* Running::deregister_and_stop followed by Running::stop.
deregister_and_stop(st, entries, key, stop_ok) ==
    LET form == IF st.deregistration = "Some"
                THEN Form_deregister(entries, key)
                ELSE [res |-> "None", fut |-> "None", entries |-> entries]
    IN  [entries |-> form.entries,
         state |-> IF stop_ok
                   THEN [st EXCEPT !.pc = "Halting", !.deregistration = "None",
                                   !.dereg_fut = form.fut,
                                   !.halting_service = "pending"]
                   ELSE [st EXCEPT !.pc = "StopError", !.deregistration = "None"]]

\* Halting::poll.  The deregistration future is polled whenever the field is
\* Some, and the field is never cleared; std::future::Ready panics when it
\* is polled after it has returned Ready.
Halting_poll(st) ==
    LET polled == [st EXCEPT !.polls = @ + 1]
    IN  IF st.dereg_fut = "completed"
        THEN [polled EXCEPT !.pc = "Panicked", !.dereg_repolls = @ + 1]
        ELSE LET after == IF st.dereg_fut = "ready"
                          THEN [polled EXCEPT !.dereg_fut = "completed"]
                          ELSE polled
             IN  IF st.halting_service = "ready_ok"
                 THEN [after EXCEPT !.pc = "Stopped", !.halting_service = "completed"]
                 ELSE IF st.halting_service = "ready_err"
                 THEN [after EXCEPT !.pc = "Error", !.halting_service = "completed"]
                 ELSE after

DeregisterAndStop(s, stop_ok) ==
    /\ server[s].pc = "Running"
    /\ LET r == deregister_and_stop(server[s], registry.entries, s, stop_ok)
       IN  /\ server' = [server EXCEPT ![s] = r.state]
           /\ registry' = [registry EXCEPT !.entries = r.entries]
    /\ last' = [op |-> "deregister_and_stop", service |-> s]
    /\ UNCHANGED haltingFrame

\* The service finishes stopping, with its own result.
HaltingServiceResolves(s, ok) ==
    /\ server[s].pc = "Halting"
    /\ server[s].halting_service = "pending"
    /\ server' = [server EXCEPT ![s].halting_service =
                                    IF ok THEN "ready_ok" ELSE "ready_err"]
    /\ last' = [op |-> "halting_service_resolves", service |-> s]
    /\ UNCHANGED <<haltingFrame, registry>>

HaltingPoll(s) ==
    /\ server[s].pc = "Halting"
    /\ server[s].polls < MaxHaltingPolls
    /\ server' = [server EXCEPT ![s] = Halting_poll(server[s])]
    /\ last' = [op |-> "halting_poll", service |-> s,
                 dereg_before |-> server[s].dereg_fut,
                 service_before |-> server[s].halting_service]
    /\ UNCHANGED <<haltingFrame, registry>>

InitHalting ==
    /\ secret = 0
    /\ ck_issue = NoCall
    /\ ck_check = NoCall
    /\ now = 0
    /\ mode = "Public"
    /\ cfg = [persistent |-> FALSE, pruning |-> FALSE]
    /\ keys = EmptyMap
    /\ whitelist = {}
    /\ torrents = EmptyMap
    /\ db_keys = EmptyMap
    /\ db_whitelist = {}
    /\ db_torrents = EmptyMap
    /\ udp_conn = NoCall
    /\ last = [op |-> "init"]
    /\ ann = [x \in InfoHashes \X PeerIds |-> NoAnn]
    /\ job = [started |-> FALSE]
    /\ lock = [writer |-> None, readers |-> {}]
    /\ tasks = << >>
    /\ active_requests = << >>
    /\ \E registered \in SUBSET HaltingServices :
        /\ server = [s \in HaltingServices |->
                        [pc |-> "Running",
                         deregistration |-> IF s \in registered THEN "Some" ELSE "None",
                         dereg_fut |-> "None", halting_service |-> "None",
                         polls |-> 0, dereg_repolls |-> 0]]
        /\ \E entries \in SUBSET registered :
            registry = [entries |-> entries, pending |-> {}]
    /\ shutdown = [pc |-> "none"]

NextHalting ==
    \/ \E s \in HaltingServices, stop_ok \in BOOLEAN : DeregisterAndStop(s, stop_ok)
    \/ \E s \in HaltingServices, ok \in BOOLEAN : HaltingServiceResolves(s, ok)
    \/ \E s \in HaltingServices : HaltingPoll(s)

SpecHalting == InitHalting /\ [][NextHalting]_vars

\* C33: Halting::poll never polls the deregistration future again after
\* that future has returned Ready; later polls reach only the halting
\* service, until it yields Stopped or the service error.
C33_DeregistrationNeverRepolled ==
    \A s \in HaltingServices :
        /\ server[s].dereg_repolls = 0
        /\ server[s].pc # "Panicked"

(***************************************************************************)
(* C34 and C35: the service registry and its Registar.  The registry is a  *)
(* map of checkers behind a mutex with an atomic key counter; the Registar *)
(* hands out forms that hold a reference to the registry.                  *)
(***************************************************************************)

\* The threads that use the registry.
RegThreads == {"t1", "t2"}

\* The keys the generator hands out at most, and the calls to the Registar.
MaxKeys == 3

MaxFormCalls == 2

\* How many owners the Arc returned by Registar::new gets at most.
MaxOwners == 2

registryFrame == <<now, cookieVars, mode, cfg, keys, whitelist, torrents, db_keys,
                   db_whitelist, db_torrents, udp_conn, ann, job, lock,
                   active_requests, server, shutdown>>

\* Registry::me: Arc::downgrade(&Arc::new(self.clone())).  The new Arc is a
\* temporary of the expression: it is allocated with one strong reference,
\* downgraded, and dropped when me returns.
Registry_me(heap) ==
    LET a == Len(heap) + 1
        allocated == Append(heap, [strong |-> 1, weak |-> 0])
        downgraded == [allocated EXCEPT ![a].weak = @ + 1]
        returned == [downgraded EXCEPT ![a].strong = @ - 1]
    IN  [heap |-> returned, weak |-> a]

\* Weak::upgrade: None once the allocation has no strong reference left.
Weak_upgrade(heap, w) ==
    IF heap[w].strong = 0
    THEN [arc |-> None, heap |-> heap]
    ELSE [arc |-> w, heap |-> [heap EXCEPT ![w].strong = @ + 1]]

\* Registar::give_register_form and give_deregister_form: both upgrade the
\* Weak that me() returned and bind the form to the Arc they got.
give_form(heap) ==
    LET m == Registry_me(heap)
        u == Weak_upgrade(m.heap, m.weak)
        dropped == [u.heap EXCEPT ![m.weak].weak = @ - 1]
    IN  IF u.arc = None
        THEN [res |-> "FailedToGetRegister", bound |-> None, heap |-> dropped]
        ELSE [res |-> "Ok", bound |-> u.arc, heap |-> dropped]

\* A key generator that hands out the same key again.
next_id_stuck(counter) == [key |-> counter, counter |-> counter]

\* KeyGenerator::next_id: counter.fetch_add(1, SeqCst), the old value is the key.
next_id(counter) == [key |-> counter, counter |-> counter + 1]

\* Registry::deregister on the map: services.remove(&key).ok_or(key).
Registry_deregister(services, key) ==
    IF key \in DOMAIN services
    THEN [res |-> [tag |-> "Ok"], services |-> MapRemove(services, key)]
    ELSE [res |-> [tag |-> "Err", key |-> key], services |-> services]

\* The Arc of Registar::new is allocation 1 of the heap.
GiveRegisterForm ==
    /\ registry.form_calls < MaxFormCalls
    /\ LET f == give_form(registry.heap)
       IN  /\ registry' = [registry EXCEPT !.heap = f.heap, !.form_calls = @ + 1]
           /\ last' = [op |-> "give_register_form", res |-> f.res, bound |-> f.bound,
                        alive |-> registry.heap[1].strong > 0]
    /\ UNCHANGED <<registryFrame, tasks>>

GiveDeregisterForm ==
    /\ registry.form_calls < MaxFormCalls
    /\ LET f == give_form(registry.heap)
       IN  /\ registry' = [registry EXCEPT !.heap = f.heap, !.form_calls = @ + 1]
           /\ last' = [op |-> "give_deregister_form", res |-> f.res, bound |-> f.bound,
                        alive |-> registry.heap[1].strong > 0]
    /\ UNCHANGED <<registryFrame, tasks>>

\* An owner of the registry Arc clones it, or drops it.
CloneRegistryArc ==
    /\ registry.heap[1].strong > 0
    /\ registry.heap[1].strong < MaxOwners
    /\ registry' = [registry EXCEPT !.heap[1].strong = @ + 1]
    /\ last' = [op |-> "clone_arc"]
    /\ UNCHANGED <<registryFrame, tasks>>

DropRegistryArc ==
    /\ registry.heap[1].strong > 0
    /\ registry' = [registry EXCEPT !.heap[1].strong = @ - 1]
    /\ last' = [op |-> "drop_arc"]
    /\ UNCHANGED <<registryFrame, tasks>>

\* Registry::register, first statement: the mutex is taken.
RegisterLock(t) ==
    /\ tasks[t].pc = "idle"
    /\ registry.mutex = None
    /\ registry.counter < MaxKeys
    /\ registry' = [registry EXCEPT !.mutex = t, !.calls = @ + 1]
    /\ tasks' = [tasks EXCEPT ![t] = [pc |-> "next_id", key |-> None,
                                      value |-> registry.calls + 1]]
    /\ last' = [op |-> "register_lock", thread |-> t]
    /\ UNCHANGED registryFrame

\* Registry::register, second statement: the key is drawn.
RegisterNextId(t) ==
    /\ tasks[t].pc = "next_id"
    /\ LET n == next_id(registry.counter)
       IN  /\ registry' = [registry EXCEPT !.counter = n.counter]
           /\ tasks' = [tasks EXCEPT ![t].pc = "insert", ![t].key = n.key]
    /\ last' = [op |-> "register_next_id", thread |-> t]
    /\ UNCHANGED registryFrame

\* Registry::register, insert and return: the guard is dropped.
RegisterInsert(t) ==
    /\ tasks[t].pc = "insert"
    /\ registry' = [registry EXCEPT
            !.services = MapInsert(@, tasks[t].key, tasks[t].value),
            !.overwritten = @ \/ tasks[t].key \in DOMAIN registry.services,
            !.issued = Append(@, tasks[t].key),
            !.mutex = None]
    /\ tasks' = [tasks EXCEPT ![t] = [pc |-> "idle", key |-> None, value |-> None]]
    /\ last' = [op |-> "register", thread |-> t, key |-> tasks[t].key,
                 value |-> tasks[t].value, before |-> registry.services]
    /\ UNCHANGED registryFrame

\* Registry::deregister, first statement: the mutex is taken.
DeregisterLock(t, key) ==
    /\ tasks[t].pc = "idle"
    /\ registry.mutex = None
    /\ registry' = [registry EXCEPT !.mutex = t]
    /\ tasks' = [tasks EXCEPT ![t] = [pc |-> "remove", key |-> key, value |-> None]]
    /\ last' = [op |-> "deregister_lock", thread |-> t]
    /\ UNCHANGED registryFrame

\* Registry::deregister, remove and return.
DeregisterRemove(t) ==
    /\ tasks[t].pc = "remove"
    /\ LET r == Registry_deregister(registry.services, tasks[t].key)
       IN  /\ registry' = [registry EXCEPT
                    !.services = r.services,
                    !.dereg_ok = IF r.res.tag = "Ok"
                                 THEN [@ EXCEPT ![tasks[t].key] = @ + 1] ELSE @,
                    !.mutex = None]
           /\ last' = [op |-> "deregister", thread |-> t, key |-> tasks[t].key,
                        res |-> r.res, before |-> registry.services]
    /\ tasks' = [tasks EXCEPT ![t] = [pc |-> "idle", key |-> None, value |-> None]]
    /\ UNCHANGED registryFrame

InitRegistry ==
    /\ secret = 0
    /\ ck_issue = NoCall
    /\ ck_check = NoCall
    /\ now = 0
    /\ mode = "Public"
    /\ cfg = [persistent |-> FALSE, pruning |-> FALSE]
    /\ keys = EmptyMap
    /\ whitelist = {}
    /\ torrents = EmptyMap
    /\ db_keys = EmptyMap
    /\ db_whitelist = {}
    /\ db_torrents = EmptyMap
    /\ udp_conn = NoCall
    /\ last = [op |-> "init"]
    /\ ann = [x \in InfoHashes \X PeerIds |-> NoAnn]
    /\ job = [started |-> FALSE]
    /\ lock = [writer |-> None, readers |-> {}]
    /\ tasks = [t \in RegThreads |-> [pc |-> "idle", key |-> None, value |-> None]]
    /\ active_requests = << >>
    /\ server = [pc |-> "Stopped"]
    /\ registry = [heap |-> <<[strong |-> 1, weak |-> 0]>>, form_calls |-> 0,
                   services |-> EmptyMap, counter |-> 0, mutex |-> None,
                   calls |-> 0, issued |-> << >>, overwritten |-> FALSE,
                   dereg_ok |-> [k \in 0..MaxKeys |-> 0]]
    /\ shutdown = [pc |-> "none"]

NextRegistry ==
    \/ GiveRegisterForm
    \/ GiveDeregisterForm
    \/ CloneRegistryArc
    \/ DropRegistryArc
    \/ \E t \in RegThreads : RegisterLock(t)
    \/ \E t \in RegThreads : RegisterNextId(t)
    \/ \E t \in RegThreads : RegisterInsert(t)
    \/ \E t \in RegThreads, key \in 0..MaxKeys : DeregisterLock(t, key)
    \/ \E t \in RegThreads : DeregisterRemove(t)

SpecRegistry == InitRegistry /\ [][NextRegistry]_vars

\* C34: while the registry Arc returned by Registar::new is alive,
\* give_register_form and give_deregister_form return Ok with a form bound
\* to that registry; FailedToGetRegister is returned only after it was dropped.
C34_FormsWhileRegistryAlive ==
    (last.op \in {"give_register_form", "give_deregister_form"})
        => /\ last.alive => (last.res = "Ok" /\ last.bound = 1)
           /\ last.res = "FailedToGetRegister" => ~last.alive

\* C35: every successful register returned a key no other register call
\* returned and overwrote nothing; deregister(k) is Ok at most once per key
\* and only for an issued key, removes exactly k, and when k is not
\* registered returns Err(k) and leaves the registry unchanged.
C35_KeysFreshDeregisterExact ==
    /\ \A i, j \in 1..Len(registry.issued) :
            i # j => registry.issued[i] # registry.issued[j]
    /\ ~registry.overwritten
    /\ \A k \in 0..MaxKeys :
        /\ registry.dereg_ok[k] <= 1
        /\ registry.dereg_ok[k] = 1 =>
                \E i \in 1..Len(registry.issued) : registry.issued[i] = k
    /\ DOMAIN registry.services =
            {k \in 0..MaxKeys : /\ \E i \in 1..Len(registry.issued) : registry.issued[i] = k
                                /\ registry.dereg_ok[k] = 0}
    /\ last.op = "register" =>
            /\ last.key \notin DOMAIN last.before
            /\ registry.services = MapInsert(last.before, last.key, last.value)
    /\ last.op = "deregister" =>
            IF last.key \in DOMAIN last.before
            THEN /\ last.res = [tag |-> "Ok"]
                 /\ registry.services = MapRemove(last.before, last.key)
            ELSE /\ last.res = [tag |-> "Err", key |-> last.key]
                 /\ registry.services = last.before

\* C35 witness: two threads have registered, one key was deregistered with
\* Ok, and a second deregistration of the same key has returned Err.
C35_Witness ==
    /\ Len(registry.issued) >= 2
    /\ last.op = "deregister"
    /\ last.res = [tag |-> "Err", key |-> last.key]
    /\ registry.dereg_ok[last.key] = 1
    /\ registry.services # EmptyMap

(***************************************************************************)
(* C36: the handle of the API service.  ApiHandle owns the sending half of *)
(* the halt channel; stop consumes the handle, and the handle has a Drop   *)
(* implementation that shuts down as well.                                 *)
(***************************************************************************)

\* The API services that are started.
ApiHandles == {"h1", "h2", "h3"}

apiFrame == <<now, cookieVars, mode, cfg, keys, whitelist, torrents, db_keys,
              db_whitelist, db_torrents, udp_conn, ann, job, lock, tasks,
              active_requests, registry, shutdown>>

\* No handle yet: Launcher::start has not been called.
NoApiHandle ==
    [pc |-> "none", tx_shutdown |-> "None", rx |-> "none", sent |-> 0,
     shutdown_calls |-> 0, late_calls |-> 0, panic |-> None, res |-> None]

\* ApiHandle::default: a fresh channel, the sender kept in the handle.
ApiHandle_default ==
    [pc |-> "started", tx_shutdown |-> "Some", rx |-> "open", sent |-> 0,
     shutdown_calls |-> 0, late_calls |-> 0, panic |-> None, res |-> None]

\* ApiHandle::shutdown: take the sender and send Halted::Normal, or panic
\* when the sender was taken before.
ApiHandle_shutdown(h) ==
    LET called == [h EXCEPT !.shutdown_calls = @ + 1]
    IN  IF h.tx_shutdown = "Some"
        THEN IF h.rx = "open"
             THEN [called EXCEPT !.tx_shutdown = "None", !.rx = "received",
                                 !.sent = @ + 1, !.res = "Ok"]
             ELSE [called EXCEPT !.tx_shutdown = "None",
                                 !.res = "UnableToSendHaltingMessage"]
        ELSE [called EXCEPT !.late_calls = @ + 1,
                            !.panic = "it has already taken the channel?"]

\* Drop for ApiHandle: shutdown().expect(..).
ApiHandle_drop(h) ==
    LET s == ApiHandle_shutdown(h)
    IN  IF s.panic # None THEN s
        ELSE IF s.res # "Ok"
        THEN [s EXCEPT !.panic = "it should shutdown when dropped"]
        ELSE s

\* Handle::stop(mut self): shutdown, then self goes out of scope and is
\* dropped; the result of shutdown is what stop returns.
ApiHandle_stop(h) ==
    LET s == ApiHandle_shutdown(h)
        d == ApiHandle_drop(s)
    IN  [d EXCEPT !.pc = "stopped", !.res = s.res]

\* Launcher::start: the handle is made first; when the bind fails the
\* function returns the error and the handle is dropped.
ApiStart(h, bind_ok) ==
    /\ server[h].pc = "none"
    /\ server' = [server EXCEPT ![h] =
                    IF bind_ok THEN ApiHandle_default
                    ELSE [ApiHandle_drop(ApiHandle_default) EXCEPT !.pc = "dropped"]]
    /\ last' = [op |-> "api_start", handle |-> h]
    /\ UNCHANGED apiFrame

ApiStop(h) ==
    /\ server[h].pc = "started"
    /\ server' = [server EXCEPT ![h] = ApiHandle_stop(server[h])]
    /\ last' = [op |-> "api_stop", handle |-> h]
    /\ UNCHANGED apiFrame

\* The handle goes out of scope without stop.
ApiDropHandle(h) ==
    /\ server[h].pc = "started"
    /\ server' = [server EXCEPT ![h] = [ApiHandle_drop(server[h]) EXCEPT !.pc = "dropped"]]
    /\ last' = [op |-> "api_drop", handle |-> h]
    /\ UNCHANGED apiFrame

\* shutdown_signal resolves through the global signal: the receiver is gone.
ApiGlobalSignal(h) ==
    /\ server[h].pc = "started"
    /\ server[h].rx = "open"
    /\ server' = [server EXCEPT ![h].rx = "closed"]
    /\ last' = [op |-> "api_global_signal", handle |-> h]
    /\ UNCHANGED apiFrame

InitApi ==
    /\ secret = 0
    /\ ck_issue = NoCall
    /\ ck_check = NoCall
    /\ now = 0
    /\ mode = "Public"
    /\ cfg = [persistent |-> FALSE, pruning |-> FALSE]
    /\ keys = EmptyMap
    /\ whitelist = {}
    /\ torrents = EmptyMap
    /\ db_keys = EmptyMap
    /\ db_whitelist = {}
    /\ db_torrents = EmptyMap
    /\ udp_conn = NoCall
    /\ last = [op |-> "init"]
    /\ ann = [x \in InfoHashes \X PeerIds |-> NoAnn]
    /\ job = [started |-> FALSE]
    /\ lock = [writer |-> None, readers |-> {}]
    /\ tasks = << >>
    /\ active_requests = << >>
    /\ server = [h \in ApiHandles |-> NoApiHandle]
    /\ registry = [entries |-> {}, pending |-> {}]
    /\ shutdown = [pc |-> "none"]

NextApi ==
    \/ \E h \in ApiHandles, bind_ok \in BOOLEAN : ApiStart(h, bind_ok)
    \/ \E h \in ApiHandles : ApiStop(h)
    \/ \E h \in ApiHandles : ApiDropHandle(h)
    \/ \E h \in ApiHandles : ApiGlobalSignal(h)

SpecApi == InitApi /\ [][NextApi]_vars

\* C36: a started API service is stopped without a panic: shutdown is never
\* called after the halt sender was taken, also when stop() is followed by
\* the drop of the same handle, and a handle that was stopped has sent
\* exactly one Halted message.
C36_StopNeverPanics ==
    \A h \in ApiHandles :
        server[h].pc = "stopped" =>
            /\ server[h].late_calls = 0
            /\ server[h].panic = None
            /\ server[h].sent = 1

(***************************************************************************)
(* C37 and C38: key and whitelist administration step by step.  Every      *)
(* operation first awaits the store; only then does it take the write lock *)
(* of the key map or of the whitelist.  Readers take the read lock.        *)
(***************************************************************************)

\* The threads that run administration calls and checks.
AdminThreads == {"t1", "t2"}

\* What the calls are about.
AdminHashes == {"h1"}

MutatingOps == {"generate_auth_key", "remove_auth_key",
                "add_torrent_to_whitelist", "remove_torrent_from_whitelist"}

LoadOps == {"load_keys", "load_whitelist"}

\* The arguments an operation takes.
AdminArgs(op) ==
    IF op \in {"generate_auth_key", "remove_auth_key"} THEN KeyStrings ELSE AdminHashes

\* The lock an operation takes.
AdminTarget(op) ==
    IF op \in {"generate_auth_key", "remove_auth_key", "load_keys", "verify_auth_key"}
    THEN "keys" ELSE "whitelist"

adminFrame == <<now, cookieVars, mode, cfg, torrents, db_torrents, udp_conn, ann, job,
                active_requests, svcVars>>

IdleAdmin == [pc |-> "idle", op |-> None, arg |-> None, snapshot |-> {}]

\* The store's part of a call: add_key_to_keys, remove_key_from_keys,
\* add_info_hash_to_whitelist, remove_info_hash_from_whitelist.
store_apply(op, arg, dbk, dbw, current) ==
    [keys |-> IF op = "generate_auth_key"
              THEN MapInsert(dbk, arg, key_generate_auth_key(arg, MaxLifetime, current))
              ELSE IF op = "remove_auth_key" THEN MapRemove(dbk, arg)
              ELSE dbk,
     whitelist |-> IF op = "add_torrent_to_whitelist" THEN dbw \cup {arg}
                   ELSE IF op = "remove_torrent_from_whitelist" THEN dbw \ {arg}
                   ELSE dbw]

\* The in-memory part of a call: insert or remove under the write guard.
memory_apply(op, arg, ks, wl, current) ==
    [keys |-> IF op = "generate_auth_key"
              THEN MapInsert(ks, arg, key_generate_auth_key(arg, MaxLifetime, current))
              ELSE IF op = "remove_auth_key" THEN MapRemove(ks, arg)
              ELSE ks,
     whitelist |-> IF op = "add_torrent_to_whitelist" THEN wl \cup {arg}
                   ELSE IF op = "remove_torrent_from_whitelist" THEN wl \ {arg}
                   ELSE wl]

\* An administration call that changes the memory before it asks the store.
AdminCall_memory_first(t, op, arg, db_ok) ==
    /\ tasks[t].pc = "idle"
    /\ lock[AdminTarget(op)].writer = None
    /\ LET s == store_apply(op, arg, db_keys, db_whitelist, now)
           m == memory_apply(op, arg, keys, whitelist, now)
       IN  /\ db_keys' = IF db_ok THEN s.keys ELSE db_keys
           /\ db_whitelist' = IF db_ok THEN s.whitelist ELSE db_whitelist
           /\ keys' = m.keys
           /\ whitelist' = m.whitelist
    /\ tasks' = tasks
    /\ lock' = [lock EXCEPT ![AdminTarget(op)].stable =
                    IF AdminTarget(op) = "keys" THEN keys' ELSE whitelist']
    /\ last' = [op |-> op, arg |-> arg, thread |-> t,
                 res |-> IF db_ok THEN "Ok" ELSE "Err",
                 keys_before |-> keys, whitelist_before |-> whitelist]
    /\ UNCHANGED adminFrame

\* First statement of generate_auth_key, remove_auth_key,
\* add_torrent_to_whitelist, remove_torrent_from_whitelist: the store is
\* awaited, and its error is returned with `?`.
AdminCall(t, op, arg, db_ok) ==
    /\ tasks[t].pc = "idle"
    /\ LET s == store_apply(op, arg, db_keys, db_whitelist, now)
       IN  /\ db_keys' = IF db_ok THEN s.keys ELSE db_keys
           /\ db_whitelist' = IF db_ok THEN s.whitelist ELSE db_whitelist
    /\ tasks' = IF db_ok
                THEN [tasks EXCEPT ![t] = [pc |-> "write", op |-> op, arg |-> arg,
                                           snapshot |-> {}]]
                ELSE tasks
    /\ last' = [op |-> op, arg |-> arg, thread |-> t,
                 res |-> IF db_ok THEN "Accepted" ELSE "Err",
                 keys_before |-> keys, whitelist_before |-> whitelist]
    /\ UNCHANGED <<adminFrame, keys, whitelist, lock>>

\* Second statement: the write guard is taken, the map or set is changed,
\* the guard is dropped and Ok is returned.
AdminApply(t) ==
    /\ tasks[t].pc = "write"
    /\ lock[AdminTarget(tasks[t].op)].writer = None
    /\ LET m == memory_apply(tasks[t].op, tasks[t].arg, keys, whitelist, now)
       IN  /\ keys' = m.keys
           /\ whitelist' = m.whitelist
    /\ lock' = [lock EXCEPT ![AdminTarget(tasks[t].op)].stable =
                    IF AdminTarget(tasks[t].op) = "keys" THEN keys' ELSE whitelist']
    /\ tasks' = [tasks EXCEPT ![t] = IdleAdmin]
    /\ last' = [op |-> tasks[t].op, arg |-> tasks[t].arg, thread |-> t, res |-> "Ok",
                 keys_before |-> keys, whitelist_before |-> whitelist]
    /\ UNCHANGED <<adminFrame, db_keys, db_whitelist>>

\* load_keys / load_whitelist, first statement: the store is read.
LoadCall(t, op, db_ok) ==
    /\ tasks[t].pc = "idle"
    /\ tasks' = IF db_ok
                THEN [tasks EXCEPT ![t] =
                        [pc |-> "lock", op |-> op, arg |-> None,
                         snapshot |-> IF op = "load_keys" THEN DOMAIN db_keys
                                      ELSE db_whitelist,
                         loaded |-> IF op = "load_keys" THEN db_keys ELSE db_whitelist]]
                ELSE tasks
    /\ last' = [op |-> op, arg |-> None, thread |-> t,
                 res |-> IF db_ok THEN "Read" ELSE "Err",
                 keys_before |-> keys, whitelist_before |-> whitelist]
    /\ UNCHANGED <<adminFrame, keys, whitelist, db_keys, db_whitelist, lock>>

\* The write guard is taken.
LoadLock(t) ==
    /\ tasks[t].pc = "lock"
    /\ lock[AdminTarget(tasks[t].op)].writer = None
    /\ lock' = [lock EXCEPT ![AdminTarget(tasks[t].op)].writer = t]
    /\ tasks' = [tasks EXCEPT ![t].pc = "clear"]
    /\ last' = [op |-> "load_lock", thread |-> t]
    /\ UNCHANGED <<adminFrame, keys, whitelist, db_keys, db_whitelist>>

\* keys.clear() / whitelist.clear()
LoadClear(t) ==
    /\ tasks[t].pc = "clear"
    /\ keys' = IF tasks[t].op = "load_keys" THEN EmptyMap ELSE keys
    /\ whitelist' = IF tasks[t].op = "load_whitelist" THEN {} ELSE whitelist
    /\ tasks' = [tasks EXCEPT ![t].pc = "insert"]
    /\ last' = [op |-> "load_clear", thread |-> t]
    /\ UNCHANGED <<adminFrame, db_keys, db_whitelist, lock>>

\* One iteration of the insert loop.
LoadInsert(t, x) ==
    /\ tasks[t].pc = "insert"
    /\ x \in tasks[t].snapshot
    /\ keys' = IF tasks[t].op = "load_keys"
               THEN MapInsert(keys, x, tasks[t].loaded[x]) ELSE keys
    /\ whitelist' = IF tasks[t].op = "load_whitelist" THEN whitelist \cup {x} ELSE whitelist
    /\ tasks' = [tasks EXCEPT ![t].snapshot = @ \ {x}]
    /\ last' = [op |-> "load_insert", thread |-> t]
    /\ UNCHANGED <<adminFrame, db_keys, db_whitelist, lock>>

\* The loop is over: Ok is returned and the guard is dropped.
LoadReturn(t) ==
    /\ tasks[t].pc = "insert"
    /\ tasks[t].snapshot = {}
    /\ lock' = [lock EXCEPT ![AdminTarget(tasks[t].op)] =
                    [writer |-> None,
                     stable |-> IF tasks[t].op = "load_keys" THEN keys ELSE whitelist]]
    /\ tasks' = [tasks EXCEPT ![t] = IdleAdmin]
    /\ last' = [op |-> tasks[t].op, arg |-> None, thread |-> t, res |-> "Ok",
                 keys_before |-> keys, whitelist_before |-> whitelist,
                 loaded |-> tasks[t].loaded]
    /\ UNCHANGED <<adminFrame, keys, whitelist, db_keys, db_whitelist>>

\* A reader that does not wait for the writer.
may_read_unlocked(lk) == TRUE

\* RwLock::read: granted while no write guard is held.
may_read(lk) == lk.writer = None

\* verify_auth_key / is_info_hash_whitelisted: one look under the read guard.
AdminRead(t, op, arg) ==
    /\ tasks[t].pc = "idle"
    /\ may_read(lock[AdminTarget(op)])
    /\ last' = [op |-> op, arg |-> arg, thread |-> t,
                 res |-> IF op = "verify_auth_key"
                         THEN verify_auth_key(keys, AuthKey_from_string(arg), now)
                         ELSE is_info_hash_whitelisted(whitelist, arg),
                 seen |-> IF op = "verify_auth_key" THEN keys ELSE whitelist,
                 stable |-> lock[AdminTarget(op)].stable]
    /\ UNCHANGED <<adminFrame, keys, whitelist, db_keys, db_whitelist, lock, tasks>>

InitAdmin ==
    /\ secret = 0
    /\ ck_issue = NoCall
    /\ ck_check = NoCall
    /\ now = 0
    /\ mode = "PrivateListed"
    /\ cfg = [persistent |-> FALSE, pruning |-> FALSE]
    /\ keys = EmptyMap
    /\ whitelist = {}
    /\ torrents = EmptyMap
    /\ db_keys = EmptyMap
    /\ db_whitelist = {}
    /\ db_torrents = EmptyMap
    /\ udp_conn = NoCall
    /\ last = [op |-> "init"]
    /\ ann = [x \in InfoHashes \X PeerIds |-> NoAnn]
    /\ job = [started |-> FALSE]
    /\ lock = [keys |-> [writer |-> None, stable |-> EmptyMap],
               whitelist |-> [writer |-> None, stable |-> {}]]
    /\ tasks = [t \in AdminThreads |-> IdleAdmin]
    /\ active_requests = << >>
    /\ server = [pc |-> "Stopped"]
    /\ registry = [entries |-> {}, pending |-> {}]
    /\ shutdown = [pc |-> "none"]

NextAdmin ==
    \/ \E t \in AdminThreads, op \in MutatingOps, db_ok \in BOOLEAN :
            \E arg \in AdminArgs(op) : AdminCall(t, op, arg, db_ok)
    \/ \E t \in AdminThreads : AdminApply(t)
    \/ \E t \in AdminThreads, op \in LoadOps, db_ok \in BOOLEAN : LoadCall(t, op, db_ok)
    \/ \E t \in AdminThreads : LoadLock(t)
    \/ \E t \in AdminThreads : LoadClear(t)
    \/ \E t \in AdminThreads, x \in KeyStrings \cup AdminHashes : LoadInsert(t, x)
    \/ \E t \in AdminThreads : LoadReturn(t)
    \/ \E t \in AdminThreads, op \in {"verify_auth_key", "is_info_hash_whitelisted"} :
            \E arg \in AdminArgs(IF op = "verify_auth_key" THEN "remove_auth_key"
                                 ELSE "add_torrent_to_whitelist") :
                AdminRead(t, op, arg)

SpecAdmin == InitAdmin /\ [][NextAdmin]_vars

\* C37: administration is store-first.  A call whose store write failed
\* leaves the key map and the whitelist as they were, and the key map or
\* the whitelist changes only in a step of a call whose store write (or
\* store read, for a load) was accepted before.
C37_StoreFirst ==
    [][/\ (last'.op \in MutatingOps /\ last'.res = "Err" /\ last' # last)
            => (keys' = keys /\ whitelist' = whitelist)
       /\ (keys' # keys \/ whitelist' # whitelist)
            => \E t \in AdminThreads :
                    /\ tasks[t].pc \in {"write", "clear", "insert"}
                    /\ last'.thread = t]_vars

\* C37 witness: the store refused to remove a key, and the key is still in
\* the key map; the other key was added after the store accepted it.
C37_Witness ==
    /\ last.op = "remove_auth_key"
    /\ last.res = "Err"
    /\ last.arg \in DOMAIN keys
    /\ last.arg \in DOMAIN db_keys
    /\ Cardinality(DOMAIN keys) = 2

\* C38: a check that runs concurrently with load_keys / load_whitelist sees
\* a complete set, the one before the load or the one the load installed,
\* never the cleared or half-filled one; a load whose store read failed
\* leaves the in-memory set unchanged, and a finished load has installed
\* exactly what the store returned.
C38_LoadIsAtomic ==
    /\ last.op \in {"verify_auth_key", "is_info_hash_whitelisted"}
            => last.seen = last.stable
    /\ (last.op \in LoadOps /\ last.res = "Err")
            => (keys = last.keys_before /\ whitelist = last.whitelist_before)
    /\ (last.op = "load_keys" /\ last.res = "Ok") => keys = last.loaded
    /\ (last.op = "load_whitelist" /\ last.res = "Ok") => whitelist = last.loaded

\* C38 witness: a check ran while another thread was between reading the
\* store and taking the write guard of a load that will replace a non-empty
\* key map, and it found the key.
C38_Witness ==
    /\ last.op = "verify_auth_key"
    /\ last.res = "Ok"
    /\ \E t \in AdminThreads :
        /\ tasks[t].pc = "lock"
        /\ tasks[t].op = "load_keys"
        /\ tasks[t].loaded # keys

(***************************************************************************)
(* C39: what load_persistent_torrents does to the registry.                *)
(***************************************************************************)

\* C39: a successful load_persistent_torrents leaves every entry that was
\* in the registry exactly as it was (peers and completed), creates for
\* every stored infohash that was absent an entry with no peers and the
\* stored completed counter, and creates nothing else.
C39_LoadKeepsExistingEntries ==
    [][(last'.op = "load_persistent_torrents" /\ last'.res = "Ok") =>
          /\ DOMAIN torrents' = DOMAIN torrents \cup DOMAIN db_torrents
          /\ \A h \in DOMAIN torrents : torrents'[h] = torrents[h]
          /\ \A h \in DOMAIN db_torrents \ DOMAIN torrents :
                torrents'[h] = [peers |-> EmptyMap, completed |-> db_torrents[h]]]_vars

\* C39 witness: a load has run over a registry that held h1 with a peer and
\* a counter other than the stored one, and has created h2 from the store.
C39_Witness ==
    /\ last.op = "load_persistent_torrents"
    /\ last.res = "Ok"
    /\ DOMAIN db_torrents = InfoHashes
    /\ "h1" \in DOMAIN torrents
    /\ DOMAIN torrents["h1"].peers # {}
    /\ torrents["h1"].completed # db_torrents["h1"]
    /\ "h2" \in DOMAIN torrents
    /\ torrents["h2"] = [peers |-> EmptyMap, completed |-> db_torrents["h2"]]

(***************************************************************************)
(* C40: the panics of polling a running server.                            *)
(***************************************************************************)

\* C40: polling a server that start produced never panics: its tasks go
\* from Active to Shutdown at most once (make_shutdown is never called in
\* Shutdown), and the Active state is never polled with an empty task set.
C40_PollNeverPanics ==
    /\ server.pc # "Panicked"
    /\ server.made_shutdown <= 1
    /\ (last.op = "poll" /\ last.tasks = "Active") => last.joined # None
    /\ server.tasks = "Active" => (server.pc = "Running" => server.set # {})

\* C40 witness: the server was polled in Shutdown after the one change from
\* Active, and has resolved to Stopped with every task joined.
C40_Witness ==
    /\ last.op = "poll"
    /\ last.tasks = "Shutdown"
    /\ last.joined = None
    /\ server.pc = "Stopped"
    /\ server.made_shutdown = 1
    /\ server.set = {}

====
